---- MODULE Spec2Model ----
(***************************************************************************)
(* Task collection state engine of the Gantt chart editor: the task        *)
(* normaliser, the colour resolution, the ordering functions, the          *)
(* per-dataset undo/redo history of useTaskManager and the App handlers    *)
(* that commit through it.                                                 *)
(*                                                                         *)
(* Conventions of the model:                                               *)
(*  - a timestamp is an integer number of hours; BadDate is a value that   *)
(*    coerceToDate cannot parse;                                           *)
(*  - the empty string stands for null / undefined of a string field,      *)
(*    NoNum for a missing or non-finite number;                            *)
(*  - outline is "true", "false" or "undefined" (a raw record may carry no *)
(*    boolean outline);                                                    *)
(*  - a task carries durationHours for the derived display fields          *)
(*    (durationLabel, durationDays, startLabel, endLabel are functions of  *)
(*    start and end exactly as durationHours is);                          *)
(*  - sequences are 1-based, the code's indices 0-based: the code's index  *)
(*    of the element at i is i - 1.                                        *)
(*  - the local constants of a function body are the arguments of a        *)
(*    helper operator (ResolveWith, BuildTask, ReplaceWith, CommitNext)    *)
(*    or bound by \E over a singleton set in an action.                    *)
(***************************************************************************)
EXTENDS Integers, Sequences, FiniteSets, TLC

NoNum == -1
BadDate == -9999
HOUR == 1
HISTORY_LIMIT == 100
MAX_SAFE_INTEGER == 2147483647

DATASET_DEFAULT == "default"
DATASET_EMPTY == "empty"
DATASET_UPLOADED == "uploaded"
DATASET_OPTIONS == {DATASET_DEFAULT, DATASET_EMPTY, DATASET_UPLOADED}

SORT_ORIGINAL == "original"
SORT_START == "start"
SORT_END == "end"
SORT_MODES == {SORT_ORIGINAL, SORT_START, SORT_END}

SortDirectives == {"preserve", "by-start", "by-end", "by-original"}

(***************************************************************************)
(* Strings.  TLC has no character operations, so trim, toLowerCase and the *)
(* hex normaliser are tables over the strings the model uses.              *)
(***************************************************************************)
Trim(s) ==
    CASE s = " Orange " -> "Orange"
      [] s = " " -> ""
      [] OTHER -> s

ToLowerCase(s) ==
    CASE s = "Orange" -> "orange"
      [] s = "Grey" -> "grey"
      [] s = "Black" -> "black"
      [] s = "Black Outline" -> "black outline"
      [] s = "Teal" -> "teal"
      [] s = "#F5642D" -> "#f5642d"
      [] s = "#A9A9A9" -> "#a9a9a9"
      [] s = "#AABBCC" -> "#aabbcc"
      [] s = "#1A3F5C" -> "#1a3f5c"
      [] OTHER -> s

HexStrings ==
    {"#f5642d", "#F5642D", "#a9a9a9", "#A9A9A9", "#000000", "#abc",
     "#aabbcc", "#AABBCC", "#1a3f5c", "#1A3F5C"}

stringOrNull(value) == Trim(value)

isValidHexColor(value) == Trim(value) \in HexStrings

\* Expands #RGB to #RRGGBB and upper-cases; "" when the value is no hex colour.
normaliseHexColor(value) ==
    LET trimmed == Trim(value) IN
    CASE trimmed \in {"#f5642d", "#F5642D"} -> "#F5642D"
      [] trimmed \in {"#a9a9a9", "#A9A9A9"} -> "#A9A9A9"
      [] trimmed = "#000000" -> "#000000"
      [] trimmed \in {"#abc", "#aabbcc", "#AABBCC"} -> "#AABBCC"
      [] trimmed \in {"#1a3f5c", "#1A3F5C"} -> "#1A3F5C"
      [] OTHER -> ""

(***************************************************************************)
(* Colour presets and resolveColorSpec.                                    *)
(***************************************************************************)
COLOR_PRESETS ==
    << [key |-> "orange", label |-> "Orange", color |-> "#f5642d", outline |-> "false"],
       [key |-> "grey", label |-> "Grey", color |-> "#a9a9a9", outline |-> "false"],
       [key |-> "black", label |-> "Black", color |-> "#000000", outline |-> "false"],
       [key |-> "black-outline", label |-> "Black Outline", color |-> "#000000",
        outline |-> "true"] >>

DEFAULT_COLOR == COLOR_PRESETS[1]

NoPreset == [key |-> "", label |-> "", color |-> "", outline |-> "false"]

\* Map built by reduce: a later preset overwrites an earlier one on the same key.
LookupHits(key) ==
    {i \in 1..Len(COLOR_PRESETS) :
        key \in {ToLowerCase(COLOR_PRESETS[i].label),
                 ToLowerCase(COLOR_PRESETS[i].color),
                 COLOR_PRESETS[i].key}}

LastHit(hits) ==
    IF hits = {} THEN NoPreset
    ELSE COLOR_PRESETS[CHOOSE i \in hits : \A j \in hits : j <= i]

COLOR_LOOKUP(key) == LastHit(LookupHits(key))

LookupKey(key) == IF key = "" THEN NoPreset ELSE COLOR_LOOKUP(key)

getPreset(value) == LookupKey(ToLowerCase(Trim(value)))

Boolean(flag) == IF flag = "true" THEN "true" ELSE "false"

\* The rules with the preset of the value tried before the preset of the label.
ResolveWithValueFirst(presetFromLabel, presetFromValue, colorValue, colorLabel, outlineFlag) ==
    IF presetFromValue # NoPreset THEN
        [color |-> presetFromValue.color,
         label |-> presetFromValue.label,
         outline |-> IF outlineFlag = "undefined" THEN presetFromValue.outline
                     ELSE Boolean(outlineFlag),
         presetKey |-> presetFromValue.key]
    ELSE IF presetFromLabel # NoPreset THEN
        [color |-> presetFromLabel.color,
         label |-> presetFromLabel.label,
         outline |-> IF outlineFlag = "undefined" THEN presetFromLabel.outline
                     ELSE Boolean(outlineFlag),
         presetKey |-> presetFromLabel.key]
    ELSE IF isValidHexColor(colorValue) THEN
        [color |-> normaliseHexColor(colorValue),
         label |-> IF stringOrNull(colorLabel) # "" THEN stringOrNull(colorLabel)
                   ELSE normaliseHexColor(colorValue),
         outline |-> Boolean(outlineFlag),
         presetKey |-> ""]
    ELSE IF isValidHexColor(colorLabel) THEN
        [color |-> normaliseHexColor(colorLabel),
         label |-> normaliseHexColor(colorLabel),
         outline |-> Boolean(outlineFlag),
         presetKey |-> ""]
    ELSE IF Trim(colorLabel) # "" THEN
        [color |-> DEFAULT_COLOR.color,
         label |-> Trim(colorLabel),
         outline |-> Boolean(outlineFlag),
         presetKey |-> DEFAULT_COLOR.key]
    ELSE
        [color |-> DEFAULT_COLOR.color,
         label |-> DEFAULT_COLOR.label,
         outline |-> Boolean(IF outlineFlag = "undefined" THEN DEFAULT_COLOR.outline
                             ELSE outlineFlag),
         presetKey |-> DEFAULT_COLOR.key]

\* The six rules of resolveColorSpec, given the two preset lookups.
ResolveWith(presetFromLabel, presetFromValue, colorValue, colorLabel, outlineFlag) ==
    IF presetFromLabel # NoPreset THEN
        [color |-> presetFromLabel.color,
         label |-> presetFromLabel.label,
         outline |-> IF outlineFlag = "undefined" THEN presetFromLabel.outline
                     ELSE Boolean(outlineFlag),
         presetKey |-> presetFromLabel.key]
    ELSE IF presetFromValue # NoPreset THEN
        [color |-> presetFromValue.color,
         label |-> presetFromValue.label,
         outline |-> IF outlineFlag = "undefined" THEN presetFromValue.outline
                     ELSE Boolean(outlineFlag),
         presetKey |-> presetFromValue.key]
    ELSE IF isValidHexColor(colorValue) THEN
        [color |-> normaliseHexColor(colorValue),
         label |-> IF stringOrNull(colorLabel) # "" THEN stringOrNull(colorLabel)
                   ELSE normaliseHexColor(colorValue),
         outline |-> Boolean(outlineFlag),
         presetKey |-> ""]
    ELSE IF isValidHexColor(colorLabel) THEN
        [color |-> normaliseHexColor(colorLabel),
         label |-> normaliseHexColor(colorLabel),
         outline |-> Boolean(outlineFlag),
         presetKey |-> ""]
    ELSE IF Trim(colorLabel) # "" THEN
        [color |-> DEFAULT_COLOR.color,
         label |-> Trim(colorLabel),
         outline |-> Boolean(outlineFlag),
         presetKey |-> DEFAULT_COLOR.key]
    ELSE
        [color |-> DEFAULT_COLOR.color,
         label |-> DEFAULT_COLOR.label,
         outline |-> Boolean(IF outlineFlag = "undefined" THEN DEFAULT_COLOR.outline
                             ELSE outlineFlag),
         presetKey |-> DEFAULT_COLOR.key]

resolveColorSpec(colorValue, colorLabel, outlineFlag) ==
    ResolveWith(getPreset(colorLabel), getPreset(colorValue),
                colorValue, colorLabel, outlineFlag)

(***************************************************************************)
(* Ordering: ensureStableOrder and the three sorts.  Each decorates the    *)
(* tasks with their keys and the array index, sorts by a total order and   *)
(* reassigns position from the resulting index.                            *)
(***************************************************************************)
isFiniteNumber(value) == value # NoNum

StableOrderLess(a, b) ==
    \/ a.sortKey < b.sortKey
    \/ a.sortKey = b.sortKey /\ a.idx < b.idx

StableDecorate(tasks) ==
    [i \in 1..Len(tasks) |->
       [task |-> tasks[i],
        sortKey |-> IF isFiniteNumber(tasks[i].position)
                    THEN tasks[i].position ELSE i - 1,
        idx |-> i - 1]]

\* StableReposition without the reassignment of position.
StableRepositionKeepingPosition(sorted) ==
    [i \in 1..Len(sorted) |->
       [sorted[i].task EXCEPT
          !.originalPosition = IF isFiniteNumber(@) THEN @ ELSE i - 1]]

\* StableReposition with originalPosition renumbered like position.
StableRepositionRenumberingOriginal(sorted) ==
    [i \in 1..Len(sorted) |->
       [sorted[i].task EXCEPT !.position = i - 1, !.originalPosition = i - 1]]

StableReposition(sorted) ==
    [i \in 1..Len(sorted) |->
       [sorted[i].task EXCEPT
          !.position = i - 1,
          !.originalPosition = IF isFiniteNumber(@) THEN @ ELSE i - 1]]

ensureStableOrder(tasks) ==
    StableReposition(SortSeq(StableDecorate(tasks), StableOrderLess))

\* coerceToDate(value)?.getTime() ?? Number.MAX_SAFE_INTEGER
TimeKey(value) == IF value = BadDate THEN MAX_SAFE_INTEGER ELSE value

SortDecorate(tasks) ==
    [i \in 1..Len(tasks) |->
       [task |-> tasks[i],
        start |-> TimeKey(tasks[i].start),
        end |-> TimeKey(tasks[i].end),
        original |-> IF isFiniteNumber(tasks[i].originalPosition)
                     THEN tasks[i].originalPosition ELSE i - 1,
        position |-> IF isFiniteNumber(tasks[i].position)
                     THEN tasks[i].position ELSE i - 1,
        idx |-> i - 1]]

Reposition(sorted) ==
    [i \in 1..Len(sorted) |-> [sorted[i].task EXCEPT !.position = i - 1]]

\* OriginalLess without the originalPosition key.
PositionLess(a, b) ==
    \/ a.position < b.position
    \/ a.position = b.position /\ a.idx < b.idx

OriginalLess(a, b) ==
    \/ a.original < b.original
    \/ a.original = b.original /\ a.position < b.position
    \/ a.original = b.original /\ a.position = b.position /\ a.idx < b.idx

\* ByStartLess with ties on start and end broken by the reversed index.
ByStartLessTiesReversed(a, b) ==
    \/ a.start < b.start
    \/ a.start = b.start /\ a.end < b.end
    \/ a.start = b.start /\ a.end = b.end /\ b.idx < a.idx

ByStartLess(a, b) ==
    \/ a.start < b.start
    \/ a.start = b.start /\ a.end < b.end
    \/ a.start = b.start /\ a.end = b.end /\ OriginalLess(a, b)

ByEndLess(a, b) ==
    \/ a.end < b.end
    \/ a.end = b.end /\ a.start < b.start
    \/ a.end = b.end /\ a.start = b.start /\ OriginalLess(a, b)

sortTasksByStart(tasks) == Reposition(SortSeq(SortDecorate(tasks), ByStartLess))

sortTasksByEnd(tasks) == Reposition(SortSeq(SortDecorate(tasks), ByEndLess))

sortTasksByOriginalPosition(tasks) ==
    Reposition(SortSeq(SortDecorate(tasks), OriginalLess))

(***************************************************************************)
(* reorderTasksById: moves the source task before or after the target.     *)
(***************************************************************************)
FindIndex(tasks, id) ==
    IF \E i \in 1..Len(tasks) : tasks[i].id = id
    THEN CHOOSE i \in 1..Len(tasks) :
            tasks[i].id = id /\ \A j \in 1..(i - 1) : tasks[j].id # id
    ELSE 0

RemoveAt(seq, i) == SubSeq(seq, 1, i - 1) \o SubSeq(seq, i + 1, Len(seq))

\* splice(k, 0, item) with the code's 0-based k
InsertAt(seq, k, item) == SubSeq(seq, 1, k) \o <<item>> \o SubSeq(seq, k + 1, Len(seq))

PositionFromIndex(tasks) ==
    [i \in 1..Len(tasks) |-> [tasks[i] EXCEPT !.position = i - 1]]

\* The splice of the moved task into next, the list without it.
PlaceMoved(next, moved, targetIndex, sourceId, targetId, insertAfter) ==
    IF targetId = "" \/ sourceId = targetId THEN
        PositionFromIndex(InsertAt(next, IF insertAfter THEN Len(next) ELSE 0, moved))
    ELSE IF targetIndex = 0 THEN
        PositionFromIndex(Append(next, moved))
    ELSE
        \* the code's index of the target is targetIndex - 1
        PositionFromIndex(
          InsertAt(next, IF insertAfter THEN targetIndex ELSE targetIndex - 1, moved))

\* ReorderFrom with the target looked up before the moved task is taken out.
ReorderFromStaleTarget(tasks, sourceIndex, sourceId, targetId, insertAfter) ==
    IF sourceId = "" \/ sourceIndex = 0 THEN tasks
    ELSE PlaceMoved(RemoveAt(tasks, sourceIndex), tasks[sourceIndex],
                    FindIndex(tasks, targetId),
                    sourceId, targetId, insertAfter)

ReorderFrom(tasks, sourceIndex, sourceId, targetId, insertAfter) ==
    IF sourceId = "" \/ sourceIndex = 0 THEN tasks
    ELSE PlaceMoved(RemoveAt(tasks, sourceIndex), tasks[sourceIndex],
                    FindIndex(RemoveAt(tasks, sourceIndex), targetId),
                    sourceId, targetId, insertAfter)

reorderTasksById(tasks, sourceId, targetId, insertAfter) ==
    ReorderFrom(tasks, FindIndex(tasks, sourceId), sourceId, targetId, insertAfter)

(***************************************************************************)
(* The normaliser.                                                         *)
(***************************************************************************)
GeneratedIds == <<"g1", "g2", "g3", "g4", "g5", "g6", "g7", "g8", "g9", "g10", "g11", "g12">>

\* generateTaskId: the n-th identifier handed out; never one handed out before.
generateTaskId(n) == GeneratedIds[n]

TaskOrdinalName(n) == <<"Task 1", "Task 2", "Task 3", "Task 4", "Task 5", "Task 6">>[n]

coerceToDate(value) == value

Parses(record) == coerceToDate(record.start) # BadDate /\ coerceToDate(record.end) # BadDate

NeedsGeneratedId(record) == Parses(record) /\ Trim(record.id) = ""

\* Number of identifiers generated for the first n records of a batch.
GeneratedBefore(records, n) ==
    Cardinality({i \in 1..n : NeedsGeneratedId(records[i])})

\* The end date left as the record gives it.
RepairedEndKeepingEnd(startDate, endDate) == endDate

\* The end date after the repair of an end that precedes the start.
RepairedEnd(startDate, endDate) ==
    IF endDate < startDate THEN startDate + HOUR ELSE endDate

\* The task built from a record whose dates parse.
BuildTask(record, index, freshId, startDate, endDate, colour) ==
    [id |-> IF Trim(record.id) # "" THEN Trim(record.id) ELSE freshId,
     name |-> IF stringOrNull(record.name) # "" THEN stringOrNull(record.name)
              ELSE TaskOrdinalName(index + 1),
     start |-> startDate,
     end |-> endDate,
     color |-> colour.color,
     colorLabel |-> colour.label,
     outline |-> colour.outline,
     presetKey |-> IF colour.presetKey # "" THEN colour.presetKey
                   ELSE record.presetKey,
     durationHours |-> endDate - startDate,
     position |-> IF isFiniteNumber(record.position) THEN record.position
                  ELSE index,
     originalPosition |-> IF isFiniteNumber(record.originalPosition)
                          THEN record.originalPosition ELSE index]

\* normaliseTaskRecord without the drop of a record whose dates do not parse.
normaliseTaskRecordKeepingAll(record, index, freshId) ==
    << BuildTask(record, index, freshId,
                 coerceToDate(record.start),
                 RepairedEnd(coerceToDate(record.start), coerceToDate(record.end)),
                 resolveColorSpec(record.color, record.colorLabel, record.outline)) >>

\* A sequence of zero (record dropped) or one task.
normaliseTaskRecord(record, index, freshId) ==
    IF ~Parses(record) THEN <<>>
    ELSE << BuildTask(record, index, freshId,
                      coerceToDate(record.start),
                      RepairedEnd(coerceToDate(record.start), coerceToDate(record.end)),
                      resolveColorSpec(record.color, record.colorLabel, record.outline)) >>

RECURSIVE NormaliseItems(_, _, _)
NormaliseItems(records, n, nid) ==
    IF n = 0 THEN <<>>
    ELSE NormaliseItems(records, n - 1, nid)
         \o normaliseTaskRecord(records[n], n - 1,
                                generateTaskId(nid + GeneratedBefore(records, n - 1)))

\* nid: the number of the next identifier generateTaskId hands out
normaliseTaskCollection(records, nid) ==
    ensureStableOrder(NormaliseItems(records, Len(records), nid))

NextIdAfter(records, nid) == nid + GeneratedBefore(records, Len(records))

(***************************************************************************)
(* CSV rows.  Papa.parse is run with header: true and without dynamic      *)
(* typing, so every cell of a row, the position column included, is a      *)
(* string; the start and end cells are modelled by the timestamp they      *)
(* parse to (BadDate when they do not parse).                              *)
(***************************************************************************)
convertCsvRowsToTasks(rows, nid) ==
    LET prepared == [i \in 1..Len(rows) |->
                       [id |-> stringOrNull(rows[i].id),
                        name |-> IF stringOrNull(rows[i].Tasks) # ""
                                 THEN stringOrNull(rows[i].Tasks)
                                 ELSE TaskOrdinalName(i),
                        start |-> rows[i].StartDate,
                        end |-> rows[i].Completion,
                        color |-> stringOrNull(rows[i].Color),
                        colorLabel |-> stringOrNull(rows[i].Color),
                        outline |-> "undefined",
                        presetKey |-> "",
                        durationHours |-> NoNum,
                        \* Number.isFinite of a string cell is false
                        position |-> i - 1,
                        originalPosition |-> i - 1]]
    IN normaliseTaskCollection(prepared, nid)

CsvNextIdAfter(rows, nid) ==
    nid + Cardinality({i \in 1..Len(rows) :
                         /\ rows[i].StartDate # BadDate
                         /\ rows[i].Completion # BadDate
                         /\ stringOrNull(rows[i].id) = ""})

\* formatCsvDate: the cell of a date; a value that is no date gives the empty
\* cell, which does not parse.
formatCsvDate(value) ==
    IF coerceToDate(value) = BadDate THEN BadDate ELSE coerceToDate(value)

\* tasksToCsv, read back by Papa.parse: the file has the columns Tasks, Start
\* Date, Completion, Length, Color and position.  It has no id column, so the
\* id of a parsed row is undefined; Length is not read by
\* convertCsvRowsToTasks and position is read back as a string.
tasksToCsv(tasks) ==
    [i \in 1..Len(tasks) |->
       [id |-> "",
        Tasks |-> tasks[i].name,
        StartDate |-> formatCsvDate(tasks[i].start),
        Completion |-> formatCsvDate(tasks[i].end),
        Color |-> tasks[i].colorLabel]]

(***************************************************************************)
(* useTaskManager: records and the history buckets.  A manager value m is  *)
(* [records, history, didMutate]; past and future are stacks whose top is  *)
(* the last element.                                                       *)
(***************************************************************************)
createHistoryBucket == [past |-> <<>>, future |-> <<>>, present |-> <<>>]

cloneTasks(tasks) == tasks

EqualityKeys(task) ==
    <<task.id, task.name, task.start, task.end, task.color, task.colorLabel,
      task.outline, task.presetKey, task.durationHours, task.position>>

areTasksEqual(a, b) == EqualityKeys(a) = EqualityKeys(b)

areTaskArraysEqual(a, b) ==
    /\ Len(a) = Len(b)
    /\ \A index \in 1..Len(a) : areTasksEqual(a[index], b[index])

\* PushBounded with nothing discarded at the limit.
PushBoundedKeepingOldest(stack, snapshot) ==
    Append(stack, snapshot)

\* PushBounded with the newest snapshot, not the oldest, discarded at the limit.
PushBoundedDroppingNewest(stack, snapshot) ==
    IF Len(stack) + 1 > HISTORY_LIMIT THEN stack ELSE Append(stack, snapshot)

PushBounded(stack, snapshot) ==
    LET pushed == Append(stack, snapshot) IN
    IF Len(pushed) > HISTORY_LIMIT THEN Tail(pushed) ELSE pushed

\* ReplaceWith with the stacks kept whatever resetStacks says.
ReplaceWithKeepingStacks(m, mode, prepared, resetStacks) ==
    [records |-> IF areTaskArraysEqual(m.records[mode], prepared) THEN m.records
                 ELSE [m.records EXCEPT ![mode] = prepared],
     history |-> [m.history EXCEPT ![mode] =
                    [past |-> m.history[mode].past,
                     future |-> m.history[mode].future,
                     present |-> cloneTasks(prepared)]],
     didMutate |-> ~areTaskArraysEqual(m.records[mode], prepared)]

\* replaceDatasetTasks once the prepared list is computed.
ReplaceWith(m, mode, prepared, resetStacks) ==
    [records |-> IF areTaskArraysEqual(m.records[mode], prepared) THEN m.records
                 ELSE [m.records EXCEPT ![mode] = prepared],
     history |-> [m.history EXCEPT ![mode] =
                    [past |-> IF resetStacks THEN <<>> ELSE m.history[mode].past,
                     future |-> IF resetStacks THEN <<>> ELSE m.history[mode].future,
                     present |-> cloneTasks(prepared)]],
     didMutate |-> ~areTaskArraysEqual(m.records[mode], prepared)]

replaceDatasetTasks(m, mode, tasks, resetStacks, nid) ==
    ReplaceWith(m, mode, ensureStableOrder(normaliseTaskCollection(tasks, nid)),
                resetStacks)

ApplySortMode(base, sortMode) ==
    CASE sortMode = "by-start" -> sortTasksByStart(base)
      [] sortMode = "by-end" -> sortTasksByEnd(base)
      [] sortMode = "by-original" -> sortTasksByOriginalPosition(base)
      [] OTHER -> ensureStableOrder(base)

\* mutateTasks: base and next, from what the mutator returned.
PrepareNext(candidate, sortMode, normalize, nid) ==
    ApplySortMode(IF normalize THEN normaliseTaskCollection(candidate, nid)
                  ELSE ensureStableOrder(candidate),
                  sortMode)

\* CommitNext without the equality test.
CommitNextUnconditional(m, mode, next) ==
    [records |-> [m.records EXCEPT ![mode] = next],
     history |-> [m.history EXCEPT ![mode] =
                    [past |-> PushBounded(m.history[mode].past,
                                          cloneTasks(m.records[mode])),
                     future |-> <<>>,
                     present |-> cloneTasks(next)]],
     didMutate |-> TRUE]

\* CommitNext without the reset of future.
CommitNextKeepingFuture(m, mode, next) ==
    IF areTaskArraysEqual(m.records[mode], next)
    THEN [records |-> m.records, history |-> m.history, didMutate |-> FALSE]
    ELSE [records |-> [m.records EXCEPT ![mode] = next],
          history |-> [m.history EXCEPT ![mode] =
                         [past |-> PushBounded(m.history[mode].past,
                                               cloneTasks(m.records[mode])),
                          future |-> m.history[mode].future,
                          present |-> cloneTasks(next)]],
          didMutate |-> TRUE]

\* The updater with one past and one future shared by the three datasets.
CommitNextSharedStacks(m, mode, next) ==
    IF areTaskArraysEqual(m.records[mode], next)
    THEN [records |-> m.records, history |-> m.history, didMutate |-> FALSE]
    ELSE [records |-> [m.records EXCEPT ![mode] = next],
          history |-> [d \in DOMAIN m.history |->
                         [past |-> PushBounded(m.history[d].past,
                                               cloneTasks(m.records[mode])),
                          future |-> <<>>,
                          present |-> IF d = mode THEN cloneTasks(next)
                                      ELSE m.history[d].present]],
          didMutate |-> TRUE]

\* The setRecords updater of mutateTasks once next is computed.
CommitNext(m, mode, next) ==
    IF areTaskArraysEqual(m.records[mode], next)
    THEN [records |-> m.records, history |-> m.history, didMutate |-> FALSE]
    ELSE [records |-> [m.records EXCEPT ![mode] = next],
          history |-> [m.history EXCEPT ![mode] =
                         [past |-> PushBounded(m.history[mode].past,
                                               cloneTasks(m.records[mode])),
                          future |-> <<>>,
                          present |-> cloneTasks(next)]],
          didMutate |-> TRUE]

\* candidate: what the mutator returns for a clone of the current list
mutateTasks(m, mode, candidate, sortMode, normalize, nid) ==
    CommitNext(m, mode, PrepareNext(candidate, sortMode, normalize, nid))

Last(stack) == stack[Len(stack)]

Pop(stack) == SubSeq(stack, 1, Len(stack) - 1)

\* undo with the popped snapshot, not the present one, pushed onto future.
undoPushingPrevious(m, mode) ==
    LET bucket == m.history[mode] IN
    IF Len(bucket.past) = 0
    THEN [records |-> m.records, history |-> m.history, didMutate |-> FALSE]
    ELSE [records |-> [m.records EXCEPT ![mode] = cloneTasks(Last(bucket.past))],
          history |-> [m.history EXCEPT ![mode] =
                         [past |-> Pop(bucket.past),
                          future |-> Append(bucket.future, cloneTasks(Last(bucket.past))),
                          present |-> cloneTasks(Last(bucket.past))]],
          didMutate |-> TRUE]

undo(m, mode) ==
    LET bucket == m.history[mode] IN
    IF Len(bucket.past) = 0
    THEN [records |-> m.records, history |-> m.history, didMutate |-> FALSE]
    ELSE LET previousSnapshot == Last(bucket.past)
             currentSnapshot == bucket.present
         IN [records |-> [m.records EXCEPT ![mode] = cloneTasks(previousSnapshot)],
             history |-> [m.history EXCEPT ![mode] =
                            [past |-> Pop(bucket.past),
                             future |-> Append(bucket.future, cloneTasks(currentSnapshot)),
                             present |-> cloneTasks(previousSnapshot)]],
             didMutate |-> TRUE]

\* redo with the popped snapshot, not the present one, pushed onto past.
redoPushingNext(m, mode) ==
    LET bucket == m.history[mode] IN
    IF Len(bucket.future) = 0
    THEN [records |-> m.records, history |-> m.history, didMutate |-> FALSE]
    ELSE [records |-> [m.records EXCEPT ![mode] = cloneTasks(Last(bucket.future))],
          history |-> [m.history EXCEPT ![mode] =
                         [past |-> PushBounded(bucket.past, cloneTasks(Last(bucket.future))),
                          future |-> Pop(bucket.future),
                          present |-> cloneTasks(Last(bucket.future))]],
          didMutate |-> TRUE]

redo(m, mode) ==
    LET bucket == m.history[mode] IN
    IF Len(bucket.future) = 0
    THEN [records |-> m.records, history |-> m.history, didMutate |-> FALSE]
    ELSE LET nextSnapshot == Last(bucket.future)
             currentSnapshot == bucket.present
         IN [records |-> [m.records EXCEPT ![mode] = cloneTasks(nextSnapshot)],
             history |-> [m.history EXCEPT ![mode] =
                            [past |-> PushBounded(bucket.past, cloneTasks(currentSnapshot)),
                             future |-> Pop(bucket.future),
                             present |-> cloneTasks(nextSnapshot)]],
             didMutate |-> TRUE]

(***************************************************************************)
(* Inputs.                                                                 *)
(***************************************************************************)
MaxOps == 3

\* Number of commits in a row in the history specification.
MaxCommits == 150

\* Longest raw list of the ordering specification.
MaxLen == 3

Raw(id, name, start, end, color, colorLabel, outline, position, originalPosition) ==
    [id |-> id, name |-> name, start |-> start, end |-> end, color |-> color,
     colorLabel |-> colorLabel, outline |-> outline, presetKey |-> "",
     durationHours |-> NoNum, position |-> position,
     originalPosition |-> originalPosition]

\* Bodies of the task source's response: JSON arrays of raw records.
Payloads ==
    { \* free-text label, short hex value, no name, end before start; file order
      \* is not start order
      << Raw("a", "Dig", 4, 6, "", "Teal", "undefined", NoNum, NoNum),
         Raw("b", "", 2, 1, "#abc", "", "undefined", NoNum, NoNum) >>,
      \* explicit position and originalPosition, an unparseable date
      << Raw("a", "Dig", 1, 3, "", "Black", "undefined", 1, 0),
         Raw("x", "Lost", BadDate, 2, "", "", "undefined", NoNum, NoNum),
         Raw("b", "Fill", 0, 3, "", "", "true", 0, 1) >> }

CsvRow(id, name, start, end, color) ==
    [id |-> id, Tasks |-> name, StartDate |-> start, Completion |-> end, Color |-> color]

\* Parsed uploads: the rows of each file, with the file's name.
CsvFiles ==
    { [name |-> "plan.csv", fatal |-> FALSE, unreadable |-> FALSE,
       rows |-> << CsvRow("a", "Dig", 1, 3, "Orange"),
                   CsvRow("b", "Fill", 0, 3, "Teal") >>],
      [name |-> "plan2.csv", fatal |-> FALSE, unreadable |-> FALSE,
       rows |-> << CsvRow("", "Lost", BadDate, 2, ""),
                   CsvRow("a", "Dig", 1, 3, "Orange"),
                   CsvRow("b", "Fill", 0, 3, "Teal") >>],
      [name |-> "new.csv", fatal |-> FALSE, unreadable |-> FALSE,
       rows |-> << CsvRow("", "", 5, 6, "#1a3f5c") >>],
      [name |-> "broken.csv", fatal |-> TRUE, unreadable |-> FALSE, rows |-> <<>>] }

\* Raw records of the ordering specification: dates (one pair unparseable),
\* and position and originalPosition given or left out.
RawDates == { <<0, 2>>, <<1, 1>>, <<BadDate, 1>> }

RawPlaces == { <<NoNum, NoNum>>, <<0, NoNum>>, <<NoNum, 0>>, <<1, 0>> }

RawIds == <<"a", "b", "c", "d", "e">>

RawLists ==
    UNION { { [i \in 1..n |-> Raw(RawIds[i], "T", dates[i][1], dates[i][2], "", "",
                                  "undefined", places[i][1], places[i][2])] :
                dates \in [1..n -> RawDates], places \in [1..n -> RawPlaces] } :
            n \in 0..MaxLen }

\* What the chart reports for a dragged or resized bar.
DragRanges == { <<0, 1>>, <<3, 5>> }

\* Editor drafts at submit time.
Drafts ==
    { [name |-> "Plan", start |-> 1, end |-> 2, colorMode |-> "grey", customColor |-> ""],
      [name |-> "Plan", start |-> 2, end |-> 1, colorMode |-> "grey", customColor |-> ""],
      [name |-> " ", start |-> 1, end |-> 2, colorMode |-> "grey", customColor |-> ""],
      [name |-> "Plan", start |-> 1, end |-> 2, colorMode |-> "custom",
       customColor |-> "red"] }

\* Bulk shift offsets in hours (amount times unit, negated for "backward").
ShiftOffsets == { 1, -24 }

(***************************************************************************)
(* State.                                                                  *)
(***************************************************************************)
VARIABLES
    datasetMode,      \* useTaskManager: the active dataset
    records,          \* useTaskManager: dataset -> task list
    history,          \* useTaskManager: historyRef, dataset -> bucket
    fetchState,       \* "pending" until the initial fetch settles
    nextId,           \* number of the next identifier generateTaskId hands out
    sortMode,         \* App: the sort dropdown
    selectedTaskId,   \* App: the focused task ("" for none)
    selectedTaskIds,  \* App: the multi-selection
    selectionAnchor,  \* App: selectionAnchorRef ("" for none)
    pendingNewTask,   \* App: insert index of the task being created (NoNum for none)
    error,            \* useTaskManager: the message of the failed fetch ("" for none)
    uploadedName,     \* useTaskManager: the name of the file shown as uploaded
    inFlight,         \* the files Papa.parse is still parsing
    canUndo,          \* useTaskManager: the memoised flag behind the Undo button
    canRedo,          \* useTaskManager: the memoised flag behind the Redo button
    lastImport,       \* history variable: what the import that completed last resolved with
    lastStarted,      \* history variable: the file of the import started last
    lastOp,           \* history variable: the handler that ran last
    lastEffective,    \* history variable: whether it changed the task manager
    opCount,          \* history variable: number of handlers run
    selectionBefore,  \* history variable: <<selectedTaskIds, selectionAnchor>> before it
    lastTarget,       \* history variable: the task id it was called with ("" for none)
    fullPast,         \* history variable: the active dataset's past, never truncated
    pureList,         \* ordering specification: the list under test
    pureBase          \* ordering specification: the initial normalised list

vars ==
    <<datasetMode, records, history, fetchState, nextId, sortMode, selectedTaskId,
      selectedTaskIds, selectionAnchor, pendingNewTask, error, uploadedName,
      inFlight, canUndo, canRedo, lastImport, lastStarted, lastOp, lastEffective,
      opCount, selectionBefore, lastTarget, fullPast, pureList, pureBase>>

pureVars == <<pureList, pureBase>>

\* what only an import changes
importVars == <<uploadedName, inFlight, lastImport, lastStarted>>

\* the variables of the program, without the history variables
programVars ==
    <<datasetMode, records, history, fetchState, nextId, sortMode, selectedTaskId,
      selectedTaskIds, selectionAnchor, pendingNewTask, error, uploadedName, inFlight,
      canUndo, canRedo>>

Manager == [records |-> records, history |-> history, didMutate |-> FALSE]

tasks == records[datasetMode]

TaskIds(list) == {list[i].id : i \in 1..Len(list)}

HasTask(list, id) == \E i \in 1..Len(list) : list[i].id = id

\* App: the memo that maps the dropdown to the sort directive of a commit
currentSortMutationMode ==
    IF sortMode = SORT_START THEN "by-start"
    ELSE IF sortMode = SORT_END THEN "by-end"
    ELSE "preserve"

\* The effects with the selection filter left out.
TasksEffectsKeepingSelection(list, selId, selIds, anchor) ==
    [selectedTaskId |-> IF selId # "" /\ HasTask(list, selId) THEN selId ELSE "",
     selectedTaskIds |-> selIds,
     selectionAnchor |-> anchor]

\* The effects with the anchor left as it is.
TasksEffectsKeepingAnchor(list, selId, selIds, anchor) ==
    [selectedTaskId |-> IF selId # "" /\ HasTask(list, selId) THEN selId ELSE "",
     selectedTaskIds |-> SelectSeq(selIds, LAMBDA id : HasTask(list, id)),
     selectionAnchor |-> anchor]

\* App: the effects that run when the task list changes.  selId is the focused
\* task as rendered with the new list.
TasksEffects(list, selId, selIds, anchor) ==
    LET filtered == SelectSeq(selIds, LAMBDA id : HasTask(list, id)) IN
    [selectedTaskId |-> IF selId # "" /\ HasTask(list, selId) THEN selId ELSE "",
     selectedTaskIds |-> filtered,
     selectionAnchor |->
        IF Len(filtered) # Len(selIds)
        THEN IF Len(filtered) > 0 THEN filtered[Len(filtered)] ELSE selId
        ELSE anchor]

\* One handler run to completion, followed by the render and its effects.
\* The bucket the first render with a new datasetMode reads: an import has
\* just emptied its stacks, a switch has not touched it, and the effect that
\* re-sorts the list runs only after that render.
RenderedBucket(mode, op) ==
    IF op = "import" THEN createHistoryBucket ELSE history[mode]

\* useTaskManager: canUndo and canRedo are memoised on datasetMode and the
\* stable getHistoryForMode, so a render recomputes them only when the
\* active dataset changed.
HistoryFlags(mode, op) ==
    /\ canUndo' = IF mode = datasetMode THEN canUndo
                  ELSE Len(RenderedBucket(mode, op).past) > 0
    /\ canRedo' = IF mode = datasetMode THEN canRedo
                  ELSE Len(RenderedBucket(mode, op).future) > 0

Render(m, mode, sortM, selId, selIds, anchor, pend, nid, op) ==
    \E eff \in {TasksEffects(m.records[mode], selId, selIds, anchor)} :
    /\ records' = m.records
    /\ history' = m.history
    /\ datasetMode' = mode
    /\ sortMode' = sortM
    /\ selectedTaskId' = eff.selectedTaskId
    /\ selectedTaskIds' = eff.selectedTaskIds
    /\ selectionAnchor' = eff.selectionAnchor
    /\ pendingNewTask' = pend
    /\ nextId' = nid
    /\ lastOp' = op
    /\ lastEffective' = m.didMutate
    /\ selectionBefore' = <<selectedTaskIds, selectionAnchor>>
    /\ HistoryFlags(mode, op)
    /\ UNCHANGED <<fetchState, error>>

\* A user operation on the task target: counted against MaxOps.
CountedOn(target) ==
    /\ opCount < MaxOps
    /\ opCount' = opCount + 1
    /\ lastTarget' = target
    /\ UNCHANGED <<fullPast, pureVars, importVars>>

\* A user operation of the main specification.
Counted == CountedOn("")

\* App: the effects on datasetMode, run after a switch to mode: the sort
\* dropdown returns to Original and the entered dataset is committed in
\* original order.
DatasetModeEffect(m, mode, nid) ==
    mutateTasks(m, mode, m.records[mode], "by-original", FALSE, nid)

\* no import has completed / started yet
NoImport == [file |-> "", success |-> FALSE, error |-> ""]

NoFile == [name |-> "", fatal |-> FALSE, unreadable |-> FALSE, rows |-> <<>>]

InitApp ==
    /\ datasetMode = DATASET_DEFAULT
    /\ records = [mode \in DATASET_OPTIONS |-> <<>>]
    /\ history = [mode \in DATASET_OPTIONS |-> createHistoryBucket]
    /\ fetchState = "pending"
    /\ nextId = 1
    /\ sortMode = SORT_ORIGINAL
    /\ selectedTaskId = ""
    /\ selectedTaskIds = <<>>
    /\ selectionAnchor = ""
    /\ pendingNewTask = NoNum
    /\ canUndo = FALSE
    /\ canRedo = FALSE
    /\ lastOp = "init"
    /\ lastEffective = FALSE
    /\ opCount = 0
    /\ selectionBefore = << <<>>, "" >>
    /\ lastTarget = ""
    /\ error = ""
    /\ uploadedName = ""
    /\ inFlight = {}
    /\ lastImport = NoImport
    /\ lastStarted = NoFile
    /\ fullPast = <<>>

Init ==
    /\ InitApp
    /\ pureList = <<>>
    /\ pureBase = <<>>

(***************************************************************************)
(* The initial fetch and CSV import.                                       *)
(***************************************************************************)
FETCH_ERROR == "Unable to load tasks. Check that the API is running."

\* The settled fetch with no message kept for a failure.
FetchRenderSilently(m, nid, op) ==
    \E eff \in {TasksEffects(m.records[datasetMode], selectedTaskId, selectedTaskIds,
                               selectionAnchor)} :
    /\ fetchState' = "done"
    /\ records' = m.records
    /\ history' = m.history
    /\ selectedTaskId' = eff.selectedTaskId
    /\ selectedTaskIds' = eff.selectedTaskIds
    /\ selectionAnchor' = eff.selectionAnchor
    /\ nextId' = nid
    /\ lastOp' = op
    /\ lastEffective' = m.didMutate
    /\ selectionBefore' = <<selectedTaskIds, selectionAnchor>>
    /\ error' = ""
    /\ UNCHANGED <<datasetMode, sortMode, pendingNewTask, canUndo, canRedo>>

\* The settled fetch: the render after it sees the new default list.
FetchRender(m, nid, op) ==
    \E eff \in {TasksEffects(m.records[datasetMode], selectedTaskId, selectedTaskIds,
                               selectionAnchor)} :
    /\ fetchState' = "done"
    /\ records' = m.records
    /\ history' = m.history
    /\ selectedTaskId' = eff.selectedTaskId
    /\ selectedTaskIds' = eff.selectedTaskIds
    /\ selectionAnchor' = eff.selectionAnchor
    /\ nextId' = nid
    /\ lastOp' = op
    /\ lastEffective' = m.didMutate
    /\ selectionBefore' = <<selectedTaskIds, selectionAnchor>>
    /\ error' = IF op = "fetchFailed" THEN FETCH_ERROR ELSE ""
    /\ UNCHANGED <<datasetMode, sortMode, pendingNewTask, canUndo, canRedo>>

FetchResolved(payload) ==
    /\ fetchState = "pending"
    /\ FetchRender(replaceDatasetTasks(Manager, DATASET_DEFAULT, payload, TRUE, nextId),
                   NextIdAfter(payload, nextId), "fetchOk")

fetchDefaultTasksOk ==
    /\ \E payload \in Payloads : FetchResolved(payload)
    /\ UNCHANGED <<opCount, lastTarget, fullPast, pureVars, importVars>>

fetchDefaultTasksFailed ==
    /\ fetchState = "pending"
    /\ FetchRender(replaceDatasetTasks(Manager, DATASET_DEFAULT, <<>>, TRUE, nextId),
                   nextId, "fetchFailed")
    /\ UNCHANGED <<opCount, lastTarget, fullPast, pureVars, importVars>>

IMPORT_UNREADABLE == "Unable to read the CSV file."

IMPORT_NO_TASKS == "No valid tasks were detected in the uploaded CSV."

\* What importFromFile resolves with for a file.
ImportResult(file, parsedTasks) ==
    [file |-> file.name,
     success |-> ~file.unreadable /\ ~file.fatal /\ Len(parsedTasks) > 0,
     error |-> IF file.unreadable \/ file.fatal THEN IMPORT_UNREADABLE
               ELSE IF Len(parsedTasks) = 0 THEN IMPORT_NO_TASKS
               ELSE ""]

\* Papa.parse's error callback: the message only.
ImportErrorStep(file) ==
    /\ Render(Manager, datasetMode, sortMode, selectedTaskId, selectedTaskIds,
              selectionAnchor, pendingNewTask, nextId, "importUnreadable")
    /\ lastImport' = ImportResult(file, <<>>)
    /\ UNCHANGED uploadedName

\* importFromFile's complete callback and the continuation of
\* handleFileInputChange, rendered as one batch.
ImportCompleteStep(file) ==
    \E parsedTasks \in {IF file.fatal THEN <<>>
                          ELSE convertCsvRowsToTasks(file.rows, nextId)},
       nid \in {IF file.fatal THEN nextId ELSE CsvNextIdAfter(file.rows, nextId)},
       switched \in {datasetMode # DATASET_UPLOADED} :
    \E success \in {Len(parsedTasks) > 0},
       replaced \in {replaceDatasetTasks(Manager, DATASET_UPLOADED, parsedTasks,
                                         TRUE, nid)} :
    \E m \in {IF switched THEN DatasetModeEffect(replaced, DATASET_UPLOADED, nid)
               ELSE replaced} :
       /\ Render([m EXCEPT !.didMutate = TRUE],
                 DATASET_UPLOADED,
                 IF switched THEN SORT_ORIGINAL ELSE sortMode,
                 IF switched \/ success THEN "" ELSE selectedTaskId,
                 IF switched THEN <<>> ELSE selectedTaskIds,
                 IF switched THEN "" ELSE selectionAnchor,
                 IF switched THEN NoNum ELSE pendingNewTask,
                 nid, "import")
       /\ uploadedName' = IF success THEN file.name ELSE ""
       /\ lastImport' = ImportResult(file, parsedTasks)

ImportSettled(file) ==
    IF file.unreadable THEN ImportErrorStep(file) ELSE ImportCompleteStep(file)

\* An import whose parse settles before anything else happens.
importFromFile ==
    /\ opCount < MaxOps
    /\ opCount' = opCount + 1
    /\ lastTarget' = ""
    /\ \E file \in CsvFiles :
         /\ ImportSettled(file)
         /\ lastStarted' = file
    /\ UNCHANGED <<fullPast, pureVars, inFlight>>

(***************************************************************************)
(* App handlers.                                                           *)
(***************************************************************************)
\* handleDatasetChange with the selection left as it is.
handleDatasetChangeKeepingSelection ==
    /\ Counted
    /\ \E value \in DATASET_OPTIONS :
         LET switched == value # datasetMode
             m == IF switched THEN DatasetModeEffect(Manager, value, nextId)
                  ELSE Manager
         IN Render(m, value, IF switched THEN SORT_ORIGINAL ELSE sortMode,
                   selectedTaskId, selectedTaskIds, selectionAnchor, NoNum, nextId,
                   IF switched THEN "selectDataset" ELSE "selectSameDataset")

handleDatasetChange ==
    /\ Counted
    /\ \E value \in DATASET_OPTIONS :
         LET switched == value # datasetMode
             m == IF switched THEN DatasetModeEffect(Manager, value, nextId)
                  ELSE Manager
         IN Render(m, value, IF switched THEN SORT_ORIGINAL ELSE sortMode,
                   "", <<>>, "", NoNum, nextId,
                   IF switched THEN "selectDataset" ELSE "selectSameDataset")

handleSortChange ==
    /\ Counted
    /\ \E mode \in SORT_MODES :
         LET sortDirective == IF mode = SORT_START THEN "by-start"
                              ELSE IF mode = SORT_END THEN "by-end"
                              ELSE "by-original"
         IN Render(mutateTasks(Manager, datasetMode, tasks, sortDirective, FALSE, nextId),
                   datasetMode, mode, selectedTaskId, selectedTaskIds, selectionAnchor,
                   pendingNewTask, nextId, "sortChange")

\* The sort directive of an edit that touches start or end.
EditSortDirective(changed) ==
    IF sortMode = SORT_START /\ changed THEN "by-start"
    ELSE IF sortMode = SORT_END /\ changed THEN "by-end"
    ELSE currentSortMutationMode

handleDateChange ==
    /\ Counted
    /\ \E i \in 1..Len(tasks), range \in DragRanges :
         LET task == tasks[i]
             changed == range[1] # task.start \/ range[2] # task.end
             candidate == [k \in 1..Len(tasks) |->
                             IF tasks[k].id = task.id
                             THEN [tasks[k] EXCEPT !.start = range[1], !.end = range[2]]
                             ELSE tasks[k]]
         IN Render(mutateTasks(Manager, datasetMode, candidate,
                               EditSortDirective(changed), TRUE, nextId),
                   datasetMode, sortMode, selectedTaskId, selectedTaskIds,
                   selectionAnchor, pendingNewTask, nextId, "dateChange")

\* Chart click: focuses one task and drops the multi-selection.
TaskClickStep(taskId) ==
    Render(Manager, datasetMode, sortMode, taskId, <<>>, taskId, NoNum, nextId,
           "taskClick")

handleTaskClick ==
    \E i \in 1..Len(tasks) : CountedOn(tasks[i].id) /\ TaskClickStep(tasks[i].id)

ToggleSelectAllStep(checked) ==
    LET ids == [i \in 1..Len(tasks) |-> tasks[i].id] IN
    Render(Manager, datasetMode, sortMode, selectedTaskId,
           IF checked THEN ids ELSE <<>>,
           IF checked THEN (IF Len(ids) > 0 THEN ids[Len(ids)] ELSE "")
           ELSE selectedTaskId,
           pendingNewTask, nextId, "toggleSelectAll")

handleToggleSelectAll ==
    /\ Counted
    /\ \E checked \in BOOLEAN : ToggleSelectAllStep(checked)

BeginCreateTaskStep(insertIndex) ==
    Render(Manager, datasetMode, sortMode, "", <<>>, "", insertIndex, nextId,
           "beginCreateTask")

\* handleAddTask / handleInsertTaskAtIndex: opens the editor on a new task.
beginCreateTask ==
    /\ Counted
    /\ \E insertIndex \in 0..Len(tasks) : BeginCreateTaskStep(insertIndex)

handleDeleteTask ==
    /\ Counted
    /\ IF pendingNewTask # NoNum
       THEN Render(Manager, datasetMode, sortMode, "", <<>>, "", NoNum, nextId,
                   "discardPendingNewTask")
       ELSE IF ~HasTask(tasks, selectedTaskId)
       THEN Render(Manager, datasetMode, sortMode, selectedTaskId, selectedTaskIds,
                   selectionAnchor, pendingNewTask, nextId, "deleteNothing")
       ELSE Render(mutateTasks(Manager, datasetMode,
                               SelectSeq(tasks, LAMBDA task : task.id # selectedTaskId),
                               currentSortMutationMode, TRUE, nextId),
                   datasetMode, sortMode, "", selectedTaskIds, selectionAnchor,
                   pendingNewTask, nextId, "deleteTask")

CUSTOM_COLOR_KEY == "custom"

getPresetByKey(key) == IF key = "" THEN NoPreset ELSE COLOR_LOOKUP(ToLowerCase(key))

OrDefault(preset) == IF preset # NoPreset THEN preset ELSE DEFAULT_COLOR

PresetSpec(preset) ==
    [error |-> FALSE, color |-> preset.color, label |-> preset.label,
     outline |-> preset.outline, presetKey |-> preset.key]

\* error is TRUE when the draft's custom colour is no hex colour
buildColorSpecFromDraft(draft) ==
    IF draft.colorMode = CUSTOM_COLOR_KEY
    THEN [error |-> normaliseHexColor(draft.customColor) = "",
          color |-> normaliseHexColor(draft.customColor),
          label |-> normaliseHexColor(draft.customColor),
          outline |-> "false",
          presetKey |-> ""]
    ELSE PresetSpec(OrDefault(getPresetByKey(draft.colorMode)))

Max(a, b) == IF a > b THEN a ELSE b

Min(a, b) == IF a < b THEN a ELSE b

RECURSIVE MaxOriginal(_, _)
MaxOriginal(list, n) ==
    IF n = 0 THEN -1
    ELSE LET candidate == IF isFiniteNumber(list[n].originalPosition)
                          THEN list[n].originalPosition
                          ELSE IF isFiniteNumber(list[n].position)
                          THEN list[n].position ELSE 0
         IN Max(candidate, MaxOriginal(list, n - 1))

\* The greatest originalPosition in use, without the step past it.
getNextOriginalPositionSharingLast ==
    IF Len(tasks) = 0 THEN 0 ELSE MaxOriginal(tasks, Len(tasks))

getNextOriginalPosition == IF Len(tasks) = 0 THEN 0 ELSE MaxOriginal(tasks, Len(tasks)) + 1

\* handleEditorSubmit's checks in their order: the check that stops the
\* draft and sets the editor error, "" when the draft passes them all.
RejectedAs(draft) ==
    IF Trim(draft.name) = "" THEN "submitRejectedName"
    ELSE IF draft.start = BadDate \/ draft.end = BadDate THEN "submitRejectedDates"
    ELSE IF draft.end < draft.start THEN "submitRejectedRange"
    ELSE IF buildColorSpecFromDraft(draft).error THEN "submitRejectedColour"
    ELSE ""

DraftRejected(draft) == RejectedAs(draft) # ""

RejectedOps ==
    {"submitRejectedName", "submitRejectedDates", "submitRejectedRange",
     "submitRejectedColour"}

\* a rejection that commits the emptied list
RejectSubmitCommitting(op) ==
    Render(mutateTasks(Manager, datasetMode, <<>>, "preserve", FALSE, nextId),
           datasetMode, sortMode, selectedTaskId, selectedTaskIds, selectionAnchor,
           pendingNewTask, nextId, op)

\* setEditorError and return: nothing but the editor's error message changes
RejectSubmit(op) ==
    Render(Manager, datasetMode, sortMode, selectedTaskId, selectedTaskIds,
           selectionAnchor, pendingNewTask, nextId, op)

handleEditorSubmit ==
    /\ Counted
    /\ pendingNewTask # NoNum \/ HasTask(tasks, selectedTaskId)
    /\ \E draft \in Drafts :
         \E colorSpec \in {buildColorSpecFromDraft(draft)} :
         IF DraftRejected(draft)
         THEN RejectSubmit(RejectedAs(draft))
         ELSE IF pendingNewTask # NoNum
         THEN LET newId == generateTaskId(nextId)
                  insertIndex == Max(0, Min(pendingNewTask, Len(tasks)))
                  draftRecord == [id |-> newId, name |-> Trim(draft.name),
                                  start |-> draft.start, end |-> draft.end,
                                  color |-> colorSpec.color,
                                  colorLabel |-> colorSpec.label,
                                  outline |-> colorSpec.outline,
                                  presetKey |-> colorSpec.presetKey,
                                  durationHours |-> NoNum,
                                  position |-> insertIndex,
                                  originalPosition |-> getNextOriginalPosition]
              IN Render(mutateTasks(Manager, datasetMode,
                                    InsertAt(tasks, insertIndex, draftRecord),
                                    currentSortMutationMode, TRUE, nextId + 1),
                        datasetMode, sortMode, newId, <<>>, newId, NoNum, nextId + 1,
                        "addTask")
         ELSE LET selectedTask == tasks[FindIndex(tasks, selectedTaskId)]
                  changed == draft.start # selectedTask.start \/ draft.end # selectedTask.end
                  candidate == [k \in 1..Len(tasks) |->
                                  IF tasks[k].id = selectedTask.id
                                  THEN [tasks[k] EXCEPT !.name = Trim(draft.name),
                                                        !.start = draft.start,
                                                        !.end = draft.end,
                                                        !.color = colorSpec.color,
                                                        !.colorLabel = colorSpec.label,
                                                        !.outline = colorSpec.outline,
                                                        !.presetKey = colorSpec.presetKey]
                                  ELSE tasks[k]]
              IN Render(mutateTasks(Manager, datasetMode, candidate,
                                    EditSortDirective(changed), TRUE, nextId),
                        datasetMode, sortMode, selectedTaskId, selectedTaskIds,
                        selectionAnchor, pendingNewTask, nextId, "editTask")

\* The ids the colour of the editor is applied to.
ColourTargets ==
    IF Len(selectedTaskIds) > 0
    THEN {selectedTaskIds[k] : k \in 1..Len(selectedTaskIds)}
    ELSE IF selectedTaskId # "" THEN {selectedTaskId}
    ELSE {}

ApplyColour(colorSpec) ==
    IF colorSpec.error
    THEN Render(Manager, datasetMode, sortMode, selectedTaskId, selectedTaskIds,
                selectionAnchor, pendingNewTask, nextId, "applyColourRejected")
    ELSE IF ColourTargets = {}
    THEN Render(Manager, datasetMode, sortMode, selectedTaskId, selectedTaskIds,
                selectionAnchor, pendingNewTask, nextId, "applyColourNothing")
    ELSE LET candidate == [i \in 1..Len(tasks) |->
                             IF tasks[i].id \in ColourTargets
                             THEN [tasks[i] EXCEPT !.color = colorSpec.color,
                                                   !.colorLabel = colorSpec.label,
                                                   !.outline = colorSpec.outline,
                                                   !.presetKey = colorSpec.presetKey]
                             ELSE tasks[i]]
         IN Render(mutateTasks(Manager, datasetMode, candidate,
                               currentSortMutationMode, TRUE, nextId),
                   datasetMode, sortMode, selectedTaskId, selectedTaskIds,
                   selectionAnchor, pendingNewTask, nextId, "applyColour")

\* The editor's "apply colour to selection"; the editor has a draft while a
\* task is focused or a new task is being created.
handleApplyColorToSelection ==
    /\ Counted
    /\ pendingNewTask # NoNum \/ HasTask(tasks, selectedTaskId)
    /\ \E draft \in Drafts : ApplyColour(buildColorSpecFromDraft(draft))

\* The shift applied to every task, whatever the selection.
ShiftByAll(offset) ==
         LET candidate == [i \in 1..Len(tasks) |->
                             [tasks[i] EXCEPT !.start = @ + offset,
                                              !.end = @ + offset]]
         IN Render(mutateTasks(Manager, datasetMode, candidate,
                               currentSortMutationMode, TRUE, nextId),
                   datasetMode, sortMode, selectedTaskId, selectedTaskIds,
                   selectionAnchor, pendingNewTask, nextId, "shift")

ShiftBy(offset) ==
         LET candidate == [i \in 1..Len(tasks) |->
                             IF Len(selectedTaskIds) > 0
                                /\ ~\E k \in 1..Len(selectedTaskIds) :
                                       selectedTaskIds[k] = tasks[i].id
                             THEN tasks[i]
                             ELSE [tasks[i] EXCEPT !.start = @ + offset,
                                                   !.end = @ + offset]]
         IN Render(mutateTasks(Manager, datasetMode, candidate,
                               currentSortMutationMode, TRUE, nextId),
                   datasetMode, sortMode, selectedTaskId, selectedTaskIds,
                   selectionAnchor, pendingNewTask, nextId, "shift")

handleShiftSubmit ==
    /\ Counted
    /\ \E offset \in ShiftOffsets : ShiftBy(offset)

\* Drag of a sidebar row onto another row (handleSidebarDragStart focuses the
\* dragged row, handleSidebarDrop commits the reorder).
handleSidebarDrop ==
    /\ Counted
    /\ \E i \in 1..Len(tasks), j \in 1..Len(tasks), placeAfter \in BOOLEAN :
         LET sourceId == tasks[i].id
             targetId == tasks[j].id
         IN IF sourceId = targetId
            THEN Render(Manager, datasetMode, sortMode, sourceId, selectedTaskIds,
                        selectionAnchor, pendingNewTask, nextId, "dropOnSelf")
            ELSE Render(mutateTasks(Manager, datasetMode,
                                    reorderTasksById(tasks, sourceId, targetId, placeAfter),
                                    "preserve", FALSE, nextId),
                        datasetMode, sortMode, sourceId, selectedTaskIds,
                        selectionAnchor, pendingNewTask, nextId, "dragReorder")

\* Drop on the empty part of the sidebar: the dragged row moves to the end.
handleSidebarContainerDrop ==
    /\ Counted
    /\ \E i \in 1..Len(tasks) :
         Render(mutateTasks(Manager, datasetMode,
                            reorderTasksById(tasks, tasks[i].id, "", TRUE),
                            "preserve", FALSE, nextId),
                datasetMode, sortMode, tasks[i].id, selectedTaskIds,
                selectionAnchor, pendingNewTask, nextId, "dragToEnd")

(***************************************************************************)
(* Sidebar selection.                                                      *)
(***************************************************************************)
\* tasks.map((task) => task.id).filter((id) => set.has(id))
OrderedIds(list, set) ==
    SelectSeq([i \in 1..Len(list) |-> list[i].id], LAMBDA id : id \in set)

SeqToSet(ids) == {ids[i] : i \in 1..Len(ids)}

\* App: the ids the toolbar and the shift dialog act on
selectedTaskIdsEffective ==
    IF Len(selectedTaskIds) > 0 THEN selectedTaskIds
    ELSE IF selectedTaskId # "" THEN <<selectedTaskId>>
    ELSE <<>>

\* handleSidebarTaskClick: the anchor a click on taskId starts from.  anchorRef
\* is selectionAnchorRef.current when it is read; selIds and selId are the
\* values the handler closed over.
ClickAnchor(taskId, anchorRef, selIds, selId) ==
    IF anchorRef # "" THEN anchorRef
    ELSE IF Len(selIds) > 0 THEN selIds[Len(selIds)]
    ELSE IF selId # "" THEN selId
    ELSE taskId

\* handleSidebarTaskClick, shift key: the ids between anchor and taskId
RangeIds(list, anchor, taskId) ==
    IF FindIndex(list, anchor) # 0 /\ FindIndex(list, taskId) # 0
    THEN [k \in 1..(Max(FindIndex(list, anchor), FindIndex(list, taskId))
                    - Min(FindIndex(list, anchor), FindIndex(list, taskId)) + 1) |->
            list[Min(FindIndex(list, anchor), FindIndex(list, taskId)) + k - 1].id]
    ELSE <<taskId>>

\* the set after taskId is toggled in it
ToggleInSet(set, taskId) ==
    IF taskId \in set THEN set \ {taskId} ELSE set \cup {taskId}

ClickKeys == {"plain", "shift", "multi"}

\* A click on a sidebar row.  discardPendingNewTask, when a task is being
\* created, clears the focus, the selection and the anchor before the anchor
\* is read; the handler's selectedTaskIds and selectedTaskId are those of the
\* render it was created in.
SidebarTaskClickStep(taskId, key) ==
      \E pending \in {pendingNewTask # NoNum} :
      \E selId0 \in {IF pending THEN "" ELSE selectedTaskId},
         selIds0 \in {IF pending THEN <<>> ELSE selectedTaskIds},
         anchor \in {ClickAnchor(taskId, IF pending THEN "" ELSE selectionAnchor,
                                 selectedTaskIds, selectedTaskId)} :
        /\ IF key = "shift" /\ Len(tasks) > 0
           THEN Render(Manager, datasetMode, sortMode, selId0,
                       RangeIds(tasks, anchor, taskId), taskId, NoNum, nextId,
                       "sidebarShiftClick")
           ELSE IF key = "multi"
           THEN Render(Manager, datasetMode, sortMode, selId0,
                       OrderedIds(tasks, ToggleInSet(SeqToSet(selIds0), taskId)),
                       taskId, NoNum, nextId, "sidebarMultiClick")
           ELSE IF Len(selectedTaskIds) > 0
           THEN Render(Manager, datasetMode, sortMode, selId0, selIds0, taskId,
                       NoNum, nextId, "sidebarClickKeepingSelection")
           ELSE Render(Manager, datasetMode, sortMode, taskId, <<>>, taskId, NoNum,
                       nextId, "sidebarClick")

handleSidebarTaskClick ==
    \E i \in 1..Len(tasks), key \in ClickKeys :
      CountedOn(tasks[i].id) /\ SidebarTaskClickStep(tasks[i].id, key)

\* the anchor after the checkbox of taskId is cleared: remaining is the
\* selection without taskId, in display order
AnchorAfterUncheck(taskId, anchorRef, remaining, selId) ==
    IF anchorRef = taskId
    THEN IF Len(remaining) > 0 THEN remaining[Len(remaining)] ELSE selId
    ELSE anchorRef

\* The checkbox of a sidebar row: it shows whether the row is in the
\* selection and reports the opposite when clicked.
ToggleTaskSelectionStep(taskId) ==
      \E isSelected \in {taskId \notin SeqToSet(selectedTaskIds)} :
        /\ IF isSelected
           THEN Render(Manager, datasetMode, sortMode, selectedTaskId,
                       OrderedIds(tasks, SeqToSet(selectedTaskIds) \cup {taskId}),
                       taskId, pendingNewTask, nextId, "checkTask")
           ELSE Render(Manager, datasetMode, sortMode, selectedTaskId,
                       OrderedIds(tasks, SeqToSet(selectedTaskIds) \ {taskId}),
                       AnchorAfterUncheck(taskId, selectionAnchor,
                           OrderedIds(tasks, SeqToSet(selectedTaskIds) \ {taskId}),
                           selectedTaskId),
                       pendingNewTask, nextId, "uncheckTask")

handleToggleTaskSelection ==
    \E i \in 1..Len(tasks) :
      CountedOn(tasks[i].id) /\ ToggleTaskSelectionStep(tasks[i].id)

UndoStep ==
    Render(undo(Manager, datasetMode), datasetMode, sortMode, selectedTaskId,
              selectedTaskIds, selectionAnchor, pendingNewTask, nextId, "undo")

Undo == Counted /\ UndoStep

RedoStep ==
    Render(redo(Manager, datasetMode), datasetMode, sortMode, selectedTaskId,
              selectedTaskIds, selectionAnchor, pendingNewTask, nextId, "redo")

Redo == Counted /\ RedoStep

Next ==
    \/ fetchDefaultTasksOk
    \/ fetchDefaultTasksFailed
    \/ importFromFile
    \/ handleDatasetChange
    \/ handleSortChange
    \/ handleDateChange
    \/ handleTaskClick
    \/ handleToggleSelectAll
    \/ beginCreateTask
    \/ handleDeleteTask
    \/ handleEditorSubmit
    \/ handleShiftSubmit
    \/ handleSidebarDrop
    \/ handleSidebarContainerDrop
    \/ Undo
    \/ Redo

Spec == Init /\ [][Next]_vars

(***************************************************************************)
(* Properties of the history machine.                                      *)
(***************************************************************************)
past == history[datasetMode].past

future == history[datasetMode].future

\* the handlers that commit through mutateTasks
CommitOps ==
    {"sortChange", "dateChange", "deleteTask", "addTask", "editTask", "shift",
     "dragReorder", "dragToEnd", "selectDataset"}

\* m leaves the records and every history bucket as they are
LeavesManager(m) == m.records = records /\ m.history = history

\* C1 as stated: in every reachable state a commit of the unchanged list,
\* with any sort directive and with normalisation on or off, leaves the
\* records and the history of the active dataset unchanged.
IdentityCommitAnyDirectiveIsNoOp ==
    \A directive \in SortDirectives, normalize \in BOOLEAN :
        LeavesManager(mutateTasks(Manager, datasetMode, tasks, directive, normalize,
                                  nextId))

\* C1: in every reachable state a commit whose normalised and sorted result
\* is structurally equal to the active dataset's list leaves past, future,
\* present and the list unchanged; a commit of the unchanged list with the
\* directive "preserve" and normalisation off is always such a commit.
NoOpSuppression ==
    /\ \A directive \in SortDirectives, normalize \in BOOLEAN :
          areTaskArraysEqual(tasks, PrepareNext(tasks, directive, normalize, nextId))
            => LeavesManager(mutateTasks(Manager, datasetMode, tasks, directive,
                                         normalize, nextId))
    /\ LeavesManager(mutateTasks(Manager, datasetMode, tasks, "preserve", FALSE, nextId))

\* a sort of a list of two or more tasks that was suppressed
NoOpSuppressionWitness ==
    /\ lastOp = "sortChange"
    /\ ~lastEffective
    /\ sortMode = SORT_START
    /\ Len(tasks) >= 2
    /\ Len(past) > 0

\* m has the records of the current state, the active dataset's past and an
\* empty future for it
RestoresCurrent(m) ==
    /\ m.records = records
    /\ m.history[datasetMode].past = past
    /\ m.history[datasetMode].future = <<>>

\* C2: in every state reached by an effective commit on the active dataset,
\* undo followed at once by redo gives back the same task lists, the same
\* past stack and an empty future stack.
UndoRedoInverse ==
    (lastOp \in CommitOps /\ lastEffective)
        => RestoresCurrent(redo(undo(Manager, datasetMode), datasetMode))

\* an effective edit of a list of two tasks with an earlier snapshot below it
UndoRedoInverseWitness ==
    /\ lastOp = "dateChange"
    /\ lastEffective
    /\ Len(past) >= 2
    /\ Len(tasks) >= 2

\* the manager of the state a step leads to
ManagerAfter == [records |-> records', history |-> history', didMutate |-> FALSE]

\* C3: a step that is an effective commit leads to a state where undo gives
\* back the list as it was before the commit; an effective undo makes the top
\* of past the live list, pops it and pushes the live list it replaced onto
\* future; an effective redo makes the top of future the live list, pops it
\* and pushes the live list it replaced onto past.
UndoRestoresPreCommit ==
    [][ /\ (lastOp' \in CommitOps /\ lastEffective')
            => /\ undo(ManagerAfter, datasetMode').records[datasetMode']
                    = records[datasetMode']
               /\ undo(ManagerAfter, datasetMode').history[datasetMode'].past
                    = Pop(history'[datasetMode'].past)
               /\ undo(ManagerAfter, datasetMode').history[datasetMode'].future
                    = <<records'[datasetMode']>>
        /\ (lastOp' = "undo" /\ lastEffective')
            => /\ tasks' = Last(past)
               /\ past' = Pop(past)
               /\ future' = Append(future, tasks)
        /\ (lastOp' = "redo" /\ lastEffective')
            => /\ tasks' = Last(future)
               /\ future' = Pop(future)
               /\ past' = Append(past, tasks)
      ]_vars

\* a redo that brought back a list of two tasks in another order
UndoRestoresPreCommitWitness ==
    /\ lastOp = "redo"
    /\ lastEffective
    /\ Len(tasks) >= 2
    /\ Len(past) > 0
    /\ tasks # Last(past)

\* C4: an effective commit leaves the active dataset's future empty and a
\* redo issued in the state it leads to changes nothing; an undo with an
\* empty past and a redo with an empty future change nothing of the program
\* state.
FutureClearedByCommit ==
    [][ /\ (lastOp' \in CommitOps /\ lastEffective')
            => /\ future' = <<>>
               /\ redo(ManagerAfter, datasetMode').records = records'
               /\ redo(ManagerAfter, datasetMode').history = history'
        /\ (lastOp' = "undo" /\ Len(past) = 0) => UNCHANGED programVars
        /\ (lastOp' = "redo" /\ Len(future) = 0) => UNCHANGED programVars
      ]_vars

\* a redo that did nothing, issued after a commit that followed an undo
FutureClearedByCommitWitness ==
    /\ lastOp = "redo"
    /\ ~lastEffective
    /\ Len(past) >= 1
    /\ Len(tasks) >= 2

\* C6: in every reachable state, for every dataset, the present snapshot of
\* the history bucket equals the dataset's live task list in every field.
PresentMirrorsLive ==
    \A mode \in DATASET_OPTIONS : history[mode].present = records[mode]

\* C7: a step that switches the active dataset leaves the past and the future
\* stack of every dataset as they were.
SwitchKeepsStacks ==
    [][ datasetMode' # datasetMode /\ lastOp' = "selectDataset"
          => \A mode \in DATASET_OPTIONS :
                /\ history'[mode].past = history[mode].past
                /\ history'[mode].future = history[mode].future
      ]_vars

PositionDensity ==
    \A mode \in DATASET_OPTIONS :
        \A i \in 1..Len(records[mode]) : records[mode][i].position = i - 1

\* a committed deletion of a task that was not the last of its list
PositionDensityWitness ==
    /\ lastOp = "deleteTask"
    /\ lastEffective
    /\ Len(tasks) >= 1
    /\ Last(past)[Len(Last(past))].id = tasks[Len(tasks)].id

(***************************************************************************)
(* The history specification: after the fetch, a long run of distinct      *)
(* commits (every task moved one hour later), with up to MaxOps undos and   *)
(* their redos in between.  fullPast is the past stack the active dataset   *)
(* would hold without a capacity: a commit and a redo append the list they  *)
(* replace, an undo removes the top.                                        *)
(***************************************************************************)
HistoryCommit ==
    /\ fetchState = "done"
    /\ Len(fullPast) < MaxCommits
    /\ ShiftBy(1)
    /\ fullPast' = IF lastEffective' THEN Append(fullPast, tasks) ELSE fullPast
    /\ UNCHANGED <<opCount, lastTarget, pureVars, importVars>>

HistoryUndo ==
    /\ opCount < MaxOps
    /\ Len(past) > 0
    /\ UndoStep
    /\ opCount' = opCount + 1
    /\ fullPast' = Pop(fullPast)
    /\ UNCHANGED <<lastTarget, pureVars, importVars>>

HistoryRedo ==
    /\ Len(future) > 0
    /\ RedoStep
    /\ fullPast' = Append(fullPast, tasks)
    /\ UNCHANGED <<opCount, lastTarget, pureVars, importVars>>

NextHistory ==
    \/ fetchDefaultTasksOk
    \/ HistoryCommit
    \/ HistoryUndo
    \/ HistoryRedo

SpecHistory == Init /\ [][NextHistory]_vars

\* the last n elements of seq
Suffix(seq, n) == SubSeq(seq, Len(seq) - n + 1, Len(seq))

\* C5: every dataset's past holds at most HISTORY_LIMIT snapshots; the active
\* dataset's past is the most recent part of the uncapped stack; after N
\* commits with no undo it holds the min(N, HISTORY_LIMIT) most recent
\* pre-commit snapshots, so after 150 commits it holds 100 and the oldest 50
\* are gone.
BoundedHistory ==
    /\ \A mode \in DATASET_OPTIONS : Len(history[mode].past) <= HISTORY_LIMIT
    /\ Len(past) <= Len(fullPast)
    /\ past = Suffix(fullPast, Len(past))
    /\ opCount = 0 => Len(past) = Min(HISTORY_LIMIT, Len(fullPast))
    /\ (opCount = 0 /\ Len(fullPast) = 150)
          => Len(past) = 100 /\ past = SubSeq(fullPast, 51, 150)

\* 150 commits in a row, the first 50 snapshots evicted
BoundedHistoryWitness ==
    /\ opCount = 0
    /\ Len(fullPast) = 150
    /\ Len(past) = HISTORY_LIMIT
    /\ past[1] = fullPast[51]
    /\ past[1] # fullPast[1]

(***************************************************************************)
(* The ordering specification: the pure ordering functions applied, in any  *)
(* order and any number of times, to the normalised form of a raw list.     *)
(***************************************************************************)
InitOrder ==
    /\ InitApp
    /\ \E T \in RawLists :
         /\ pureBase = normaliseTaskCollection(T, 1)
         /\ pureList = normaliseTaskCollection(T, 1)

PureReorder ==
    /\ \E i \in 1..Len(pureList), targetId \in TaskIds(pureList) \cup {""},
          insertAfter \in BOOLEAN :
         pureList' = reorderTasksById(pureList, pureList[i].id, targetId, insertAfter)
    /\ UNCHANGED <<programVars, lastImport, lastStarted, lastOp, lastEffective,
                   opCount, selectionBefore,
                   lastTarget, fullPast, pureBase>>

PureSortByStart ==
    /\ pureList' = sortTasksByStart(pureList)
    /\ UNCHANGED <<programVars, lastImport, lastStarted, lastOp, lastEffective,
                   opCount, selectionBefore,
                   lastTarget, fullPast, pureBase>>

PureSortByEnd ==
    /\ pureList' = sortTasksByEnd(pureList)
    /\ UNCHANGED <<programVars, lastImport, lastStarted, lastOp, lastEffective,
                   opCount, selectionBefore,
                   lastTarget, fullPast, pureBase>>

NextOrder ==
    \/ PureReorder
    \/ PureSortByStart
    \/ PureSortByEnd

SpecOrder == InitOrder /\ [][NextOrder]_vars

IdsInOrder(list) == [i \in 1..Len(list) |-> list[i].id]

\* originalPosition grows strictly along the list
OriginalStrictlyIncreasing(list) ==
    \A i \in 1..(Len(list) - 1) :
        list[i].originalPosition < list[i + 1].originalPosition

\* C10 as stated: whatever the raw list, after any reorders and time sorts
\* the sort by original position yields the tasks in the order of the
\* normalised list.
OriginalOrderRestoredAlways ==
    IdsInOrder(sortTasksByOriginalPosition(pureList)) = IdsInOrder(pureBase)

\* C10: when originalPosition grows strictly along the normalised list, the
\* sort by original position after any reorders and time sorts yields exactly
\* the normalised list.
OriginalOrderRestored ==
    OriginalStrictlyIncreasing(pureBase)
        => sortTasksByOriginalPosition(pureList) = pureBase

\* three tasks in another order than the normalised list they come from
OriginalOrderRestoredWitness ==
    /\ OriginalStrictlyIncreasing(pureBase)
    /\ Len(pureBase) >= 3
    /\ IdsInOrder(pureList) # IdsInOrder(pureBase)
    /\ pureList[1].id = pureBase[Len(pureBase)].id

\* tasks i and j of list agree in start, end and originalPosition
TiedAt(list, i, j) ==
    /\ list[i].start = list[j].start
    /\ list[i].end = list[j].end
    /\ list[i].originalPosition = list[j].originalPosition

\* C11: for every list, sorting by start twice gives the list that sorting
\* by start once gives, task by task and position by position; the same for
\* the sort by end.
SortIdempotence ==
    /\ sortTasksByStart(sortTasksByStart(pureList)) = sortTasksByStart(pureList)
    /\ sortTasksByEnd(sortTasksByEnd(pureList)) = sortTasksByEnd(pureList)

\* a list with two tasks tied in start, end and originalPosition that the
\* sort by start and the sort by end both reorder
SortIdempotenceWitness ==
    /\ Len(pureList) >= 3
    /\ \E i, j \in 1..Len(pureList) : i < j /\ TiedAt(pureList, i, j)
    /\ sortTasksByStart(pureList) # pureList
    /\ sortTasksByEnd(pureList) # pureList

(***************************************************************************)
(* The selection specification: the fetch of a five-task list, and up to   *)
(* MaxClicks clicks on the sidebar, the chart and the add-task button.     *)
(***************************************************************************)
\* Number of clicks in the selection specification.
MaxClicks == 4

\* A click of the selection specification on the task target.
ClickedOn(target) ==
    /\ opCount < MaxClicks
    /\ opCount' = opCount + 1
    /\ lastTarget' = target
    /\ UNCHANGED <<fullPast, pureVars, importVars>>

SelectionSidebarClick ==
    \E i \in 1..Len(tasks), key \in ClickKeys :
      ClickedOn(tasks[i].id) /\ SidebarTaskClickStep(tasks[i].id, key)

SelectionCheckbox ==
    \E i \in 1..Len(tasks) :
      ClickedOn(tasks[i].id) /\ ToggleTaskSelectionStep(tasks[i].id)

SelectionSelectAll ==
    ClickedOn("") /\ \E checked \in BOOLEAN : ToggleSelectAllStep(checked)

SelectionChartClick ==
    \E i \in 1..Len(tasks) : ClickedOn(tasks[i].id) /\ TaskClickStep(tasks[i].id)

SelectionBeginCreate ==
    ClickedOn("") /\ \E insertIndex \in 0..Len(tasks) : BeginCreateTaskStep(insertIndex)

\* five tasks whose display order is A, B, C, D, E
SelectionPayloads ==
    { << Raw("A", "Dig", 0, 1, "", "", "undefined", NoNum, NoNum),
         Raw("B", "Pour", 1, 2, "", "", "undefined", NoNum, NoNum),
         Raw("C", "Cure", 2, 3, "", "", "undefined", NoNum, NoNum),
         Raw("D", "Frame", 3, 4, "", "", "undefined", NoNum, NoNum),
         Raw("E", "Roof", 4, 5, "", "", "undefined", NoNum, NoNum) >> }

fetchSidebarTasksOk ==
    /\ \E payload \in SelectionPayloads : FetchResolved(payload)
    /\ UNCHANGED <<opCount, lastTarget, fullPast, pureVars, importVars>>

NextSelection ==
    \/ fetchSidebarTasksOk
    \/ SelectionSidebarClick
    \/ SelectionCheckbox
    \/ SelectionSelectAll
    \/ SelectionChartClick
    \/ SelectionBeginCreate

SpecSelection == Init /\ [][NextSelection]_vars

(***************************************************************************)
(* The application specification with the sidebar: every handler of Next,  *)
(* and the clicks on the sidebar rows and their checkboxes.                *)
(***************************************************************************)
NextSidebar ==
    \/ Next
    \/ handleSidebarTaskClick
    \/ handleToggleTaskSelection

SpecSidebar == Init /\ [][NextSidebar]_vars

\* C12: in every state every id of the multi-selection is the id of a task
\* of the active dataset, whatever handlers ran before (delete, undo, redo,
\* import and dataset switch among them).
SelectionValidity ==
    \A k \in 1..Len(selectedTaskIds) : HasTask(tasks, selectedTaskIds[k])

\* a list change has just removed a selected task and the selection kept
\* another one
SelectionValidityWitness ==
    /\ lastOp \in {"deleteTask", "undo", "redo", "import"}
    /\ lastEffective
    /\ Len(selectionBefore[1]) > Len(selectedTaskIds)
    /\ Len(selectedTaskIds) >= 1

\* C13: a delete of a task that is in the multi-selection leaves a selection
\* without its id, and when the deleted task was the anchor the anchor is
\* afterwards none or a task of the active dataset, never the deleted id.
SelectionPurgeOnDelete ==
    [][(lastOp' = "deleteTask" /\ selectedTaskId \in SeqToSet(selectedTaskIds))
          => /\ ~HasTask(tasks', selectedTaskId)
             /\ selectedTaskId \notin SeqToSet(selectedTaskIds')
             /\ selectionAnchor = selectedTaskId
                   => /\ selectionAnchor' # selectedTaskId
                      /\ selectionAnchor' = "" \/ HasTask(tasks', selectionAnchor')]_vars

\* the deleted task was selected and was the anchor, and another selected
\* task is left
SelectionPurgeOnDeleteWitness ==
    /\ lastOp = "deleteTask"
    /\ selectionBefore[2] \in SeqToSet(selectionBefore[1])
    /\ ~HasTask(tasks, selectionBefore[2])
    /\ Len(selectedTaskIds) >= 1
    /\ selectionAnchor = selectedTaskIds[Len(selectedTaskIds)]

\* C14: in every state the anchor is none or the id of a task of the active
\* dataset, also when the selection is empty and the anchor comes from a
\* single click.
AnchorValidity ==
    selectionAnchor = "" \/ HasTask(tasks, selectionAnchor)

\* C15: a shift-click on a task, when the anchor and the clicked task are
\* both in the active list, selects exactly the ids from the smaller to the
\* larger of their two indices, both included and whichever comes first, and
\* makes the clicked task the anchor.
RangeExtend ==
    [][(/\ lastOp' = "sidebarShiftClick"
        /\ HasTask(tasks, selectionAnchor)
        /\ HasTask(tasks, lastTarget'))
          => /\ selectedTaskIds' =
                   IdsInOrder(SubSeq(tasks,
                       Min(FindIndex(tasks, selectionAnchor), FindIndex(tasks, lastTarget')),
                       Max(FindIndex(tasks, selectionAnchor), FindIndex(tasks, lastTarget'))))
             /\ selectionAnchor' = lastTarget']_vars

\* C16: with the rows in the order A, B, C, D, E, after A is selected (anchor
\* A, no multi-selection) a shift-click on D selects A, B, C, D and leaves the
\* anchor at A, and a shift-click on B that follows selects A, B and leaves
\* the anchor at A.
RangePivotScenario ==
    [][(/\ IdsInOrder(tasks) = <<"A", "B", "C", "D", "E">>
        /\ selectionBefore = << <<>>, "A" >>
        /\ lastOp = "sidebarShiftClick"
        /\ lastTarget = "D"
        /\ lastOp' = "sidebarShiftClick"
        /\ lastTarget' = "B")
          => /\ selectedTaskIds = <<"A", "B", "C", "D">>
             /\ selectionAnchor = "A"
             /\ selectedTaskIds' = <<"A", "B">>
             /\ selectionAnchor' = "A"]_vars

\* C17: a click without shift, ctrl or meta on a task, on a sidebar row or
\* on its bar in the chart, from any selection state (an existing
\* multi-selection included), empties the multi-selection, leaves exactly
\* the clicked task selected and makes it the anchor.
ReplaceSingle ==
    [][lastOp' \in {"sidebarClick", "sidebarClickKeepingSelection", "taskClick"}
          => /\ selectedTaskIds' = <<>>
             /\ selectedTaskIdsEffective' = <<lastTarget'>>
             /\ selectionAnchor' = lastTarget']_vars

\* C18: a ctrl/meta click on a sidebar row, or a click on its checkbox, puts
\* the task into the multi-selection when it is not in it and takes it out
\* when it is, every other member staying; when the task taken out was the
\* anchor, the anchor becomes the last selected id left, in display order, or
\* none when nothing is left.
ToggleSelection ==
    [][lastOp' \in {"sidebarMultiClick", "checkTask", "uncheckTask"}
          => /\ SeqToSet(selectedTaskIds') =
                   IF lastTarget' \in SeqToSet(selectedTaskIds)
                   THEN SeqToSet(selectedTaskIds) \ {lastTarget'}
                   ELSE SeqToSet(selectedTaskIds) \cup {lastTarget'}
             /\ (lastTarget' \in SeqToSet(selectedTaskIds) /\ selectionAnchor = lastTarget')
                   => selectionAnchor' = IF Len(selectedTaskIds') > 0
                                         THEN selectedTaskIds'[Len(selectedTaskIds')]
                                         ELSE ""]_vars

\* C19: in every state the multi-selection lists its tasks in the order the
\* active dataset shows them, also after a drag reorder, a sort change, an
\* undo or a redo has changed the order of selected tasks.
SelectionInDisplayOrder ==
    /\ \A k \in 1..Len(selectedTaskIds) : FindIndex(tasks, selectedTaskIds[k]) > 0
    /\ \A i, j \in 1..Len(selectedTaskIds) :
          i < j => FindIndex(tasks, selectedTaskIds[i]) < FindIndex(tasks, selectedTaskIds[j])

(***************************************************************************)
(* The CSV specification: a normalised list is exported and read back, any  *)
(* number of times, with reorders in between.                               *)
(***************************************************************************)
\* Longest list of the CSV specification.
MaxCsvLen == 2

\* colour, colour label and outline flag of a raw record: presets named by
\* label or by value, custom hex colours, outline on and off
CsvRawColours ==
    { <<"", "Orange", "undefined">>, <<"#a9a9a9", "", "undefined">>,
      <<"", "Black", "undefined">>, <<"", "Black Outline", "undefined">>,
      <<"#aabbcc", "", "undefined">>, <<"#abc", "", "true">>,
      <<"", "Grey", "true">> }

CsvRawLists ==
    UNION { { [i \in 1..n |-> Raw(RawIds[i], <<"Dig", "Fill", "Pour">>[i], i, i + 2,
                                  colours[i][1], colours[i][2], colours[i][3],
                                  NoNum, NoNum)] :
                colours \in [1..n -> CsvRawColours] } :
            n \in 0..MaxCsvLen }

InitCsv ==
    /\ InitApp
    /\ \E T \in CsvRawLists :
         /\ pureBase = normaliseTaskCollection(T, 1)
         /\ pureList = normaliseTaskCollection(T, 1)

\* export to CSV, then import of the file's rows
PureCsvRoundTrip ==
    /\ nextId + Len(pureList) <= Len(GeneratedIds) + 1
    /\ pureList' = convertCsvRowsToTasks(tasksToCsv(pureList), nextId)
    /\ nextId' = CsvNextIdAfter(tasksToCsv(pureList), nextId)
    /\ lastOp' = "csvRoundTrip"
    /\ UNCHANGED <<datasetMode, records, history, fetchState, sortMode, selectedTaskId,
                   selectedTaskIds, selectionAnchor, pendingNewTask, error, importVars,
                   canUndo, canRedo, lastEffective,
                   opCount, selectionBefore, lastTarget, fullPast, pureBase>>

\* a drag reorder between two exports
PureCsvReorder ==
    /\ \E i \in 1..Len(pureList), targetId \in TaskIds(pureList), insertAfter \in BOOLEAN :
         pureList' = reorderTasksById(pureList, pureList[i].id, targetId, insertAfter)
    /\ lastOp' = "reorder"
    /\ UNCHANGED <<programVars, lastImport, lastStarted, lastEffective, opCount,
                   selectionBefore, lastTarget,
                   fullPast, pureBase>>

NextCsv ==
    \/ PureCsvRoundTrip
    \/ PureCsvReorder

SpecCsv == InitCsv /\ [][NextCsv]_vars

\* the fields the CSV file is said to carry
CsvFields == {"id", "name", "start", "end", "color", "colorLabel", "outline"}

\* C20: for every normalised list, with preset colours, custom hex colours
\* and the outline on or off, the list read back from its CSV export has the
\* same length and agrees with it, task by task in the same order, in id,
\* name, start, end, colour, colour label and outline.
CsvRoundTrip ==
    [][lastOp' = "csvRoundTrip"
          => /\ Len(pureList') = Len(pureList)
             /\ \A i \in 1..Len(pureList) : \A f \in CsvFields :
                   pureList'[i][f] = pureList[i][f]]_vars

(***************************************************************************)
(* Properties of the stored tasks.                                         *)
(***************************************************************************)
\* every task of every dataset, and of every snapshot kept for undo and redo
StoredLists ==
    UNION { {records[mode], history[mode].present}
            \cup SeqToSet(history[mode].past) \cup SeqToSet(history[mode].future) :
            mode \in DATASET_OPTIONS }

\* C21: in every state every task of every dataset ends at or after its
\* start: ingestion repairs an end before the start to start plus one hour,
\* the editor rejects such a draft, and no drag, shift, add, undo or redo
\* stores one.
DateRangeInvariant ==
    \A list \in StoredLists : \A k \in 1..Len(list) : list[k].end >= list[k].start

\* the record fetched with end before start is stored with end one hour
\* after its start, and the editor has just rejected a draft
DateRangeInvariantWitness ==
    /\ lastOp = "submitRejectedRange"
    /\ \E k \in 1..Len(records[DATASET_DEFAULT]) :
          /\ records[DATASET_DEFAULT][k].id = "b"
          /\ records[DATASET_DEFAULT][k].start = 2
          /\ records[DATASET_DEFAULT][k].end = 2 + HOUR

\* C22: a submit of a draft whose end precedes its start, whose custom
\* colour is no hex colour or whose name is blank commits nothing: the task
\* lists and the past, future and present of every dataset are as before,
\* and so are the selection and the pending new task.
RejectedEditLeavesNoTrace ==
    [][lastOp' \in RejectedOps
          => UNCHANGED <<records, history, datasetMode, nextId, selectedTaskId,
                         selectedTaskIds, selectionAnchor, pendingNewTask>>]_vars

\* a draft with a custom colour that is no hex colour, rejected while the
\* active dataset has tasks and a commit to undo
RejectedEditLeavesNoTraceWitness ==
    /\ lastOp = "submitRejectedColour"
    /\ Len(tasks) >= 1
    /\ Len(history[datasetMode].past) >= 1

(***************************************************************************)
(* The normaliser specification: a raw batch (pureList) and the list       *)
(* normaliseTaskCollection makes of it (pureBase).                          *)
(***************************************************************************)
InitNormalise ==
    /\ InitApp
    /\ pureList \in RawLists
    /\ pureBase = <<>>

PureNormalise ==
    /\ lastOp = "init"
    /\ pureBase' = normaliseTaskCollection(pureList, 1)
    /\ lastOp' = "normalise"
    /\ UNCHANGED <<programVars, lastImport, lastStarted, lastEffective, opCount,
                   selectionBefore, lastTarget,
                   fullPast, pureList>>

NextNormalise == PureNormalise

SpecNormalise == InitNormalise /\ [][NextNormalise]_vars

\* the ids of the records of a raw batch whose start and end both parse, in
\* input order
ParseableIds(batch) ==
    IdsInOrder(SelectSeq(batch, LAMBDA record : record.start # BadDate
                                                /\ record.end # BadDate))

\* the place a record asks for: its position, or its input index
RequestedPlace(batch, id) ==
    IF isFiniteNumber(batch[FindIndex(batch, id)].position)
    THEN batch[FindIndex(batch, id)].position
    ELSE FindIndex(batch, id) - 1

\* the records dropped and kept are the right ones, with positions 0..k-1
KeepsParseable ==
    /\ Len(pureBase) = Len(ParseableIds(pureList))
    /\ TaskIds(pureBase) = SeqToSet(ParseableIds(pureList))
    /\ \A i \in 1..Len(pureBase) : pureBase[i].position = i - 1

\* C23 as stated: the normalised batch is exactly the records whose start
\* and end parse, in their input relative order, with positions 0..k-1,
\* whatever the other records are.
PerRecordDropInInputOrder ==
    lastOp = "normalise"
        => /\ KeepsParseable
           /\ IdsInOrder(pureBase) = ParseableIds(pureList)

\* C23: the normalised batch is exactly the records whose start and end
\* parse, with positions 0..k-1, ordered by the position each record asks
\* for (its own position, else its input index) and among equal ones by
\* input index; when no record carries a position that is the input relative
\* order.
PerRecordDrop ==
    lastOp = "normalise"
        => /\ KeepsParseable
           /\ \A i, j \in 1..Len(pureBase) :
                 i < j =>
                   \/ RequestedPlace(pureList, pureBase[i].id)
                         < RequestedPlace(pureList, pureBase[j].id)
                   \/ /\ RequestedPlace(pureList, pureBase[i].id)
                            = RequestedPlace(pureList, pureBase[j].id)
                      /\ FindIndex(pureList, pureBase[i].id)
                            < FindIndex(pureList, pureBase[j].id)
           /\ (\A k \in 1..Len(pureList) : ~isFiniteNumber(pureList[k].position))
                 => IdsInOrder(pureBase) = ParseableIds(pureList)

\* a batch of three records without positions whose middle record does not
\* parse: the other two are returned in input order
PerRecordDropWitness ==
    /\ lastOp = "normalise"
    /\ Len(pureList) = 3
    /\ \A k \in 1..3 : ~isFiniteNumber(pureList[k].position)
    /\ pureList[2].start = BadDate
    /\ IdsInOrder(pureBase) = <<pureList[1].id, pureList[3].id>>
    /\ pureBase[2].position = 1

(***************************************************************************)
(* Imports whose parses overlap: Papa.parse reads a File asynchronously,   *)
(* and importFromFile keeps no token of the import started last.           *)
(***************************************************************************)
\* Imports started in the import specification.
MaxImports == 3

\* The uploads of the import specification: the parsed ones, a file with a
\* header and no rows, a file whose rows all lack a date, a file the reader
\* cannot read, a file with an id column that names one id twice.
ImportFiles ==
    CsvFiles \cup
    { [name |-> "empty.csv", fatal |-> FALSE, unreadable |-> FALSE, rows |-> <<>>],
      [name |-> "invalid.csv", fatal |-> FALSE, unreadable |-> FALSE,
       rows |-> << CsvRow("", "Lost", BadDate, 2, ""),
                   CsvRow("q", "Gone", 1, BadDate, "Teal") >>],
      [name |-> "unreadable.csv", fatal |-> FALSE, unreadable |-> TRUE, rows |-> <<>>],
      [name |-> "twice.csv", fatal |-> FALSE, unreadable |-> FALSE,
       rows |-> << CsvRow("a", "Dig", 1, 3, "Orange"),
                   CsvRow("a", "Fill", 0, 3, "Grey") >>] }

\* importFromFile up to the call of Papa.parse.
StartImport ==
    /\ opCount < MaxImports
    /\ opCount' = opCount + 1
    /\ \E file \in ImportFiles \ inFlight :
         /\ inFlight' = inFlight \cup {file}
         /\ lastStarted' = file
    /\ lastOp' = "startImport"
    /\ UNCHANGED <<datasetMode, records, history, fetchState, nextId, sortMode,
                   selectedTaskId, selectedTaskIds, selectionAnchor, pendingNewTask,
                   error, uploadedName, canUndo, canRedo, lastImport, lastEffective,
                   selectionBefore, lastTarget, fullPast, pureVars>>

\* One of the parses in flight settles.
CompleteImport ==
    /\ \E file \in inFlight :
         /\ ImportSettled(file)
         /\ inFlight' = inFlight \ {file}
    /\ UNCHANGED <<opCount, lastStarted, lastTarget, fullPast, pureVars>>

NextImport ==
    \/ StartImport
    \/ CompleteImport

SpecImport == Init /\ [][NextImport]_vars

\* The three ways an import fails, by what the file is.
FileKind(file) ==
    IF file.unreadable \/ file.fatal THEN "unreadable"
    ELSE IF Len(file.rows) = 0 THEN "noRows"
    ELSE IF Len(convertCsvRowsToTasks(file.rows, 1)) = 0 THEN "noValidRows"
    ELSE "ok"

FileNamed(name) == CHOOSE file \in ImportFiles : file.name = name

\* What the import of a file reports.
ReportOf(file) ==
    ImportResult(file, IF file.unreadable \/ file.fatal THEN <<>>
                       ELSE convertCsvRowsToTasks(file.rows, 1)).error

\* C24 (as stated): a failed import reports a message that no file failing in
\* another of the three ways (unreadable, no data rows, no valid row) is
\* reported with; in particular a file without rows and a file without a
\* valid row are not reported identically.
ImportOutcomesDistinguishable ==
    (lastImport.file # "" /\ ~lastImport.success)
        => \A other \in ImportFiles :
              (FileKind(other) # "ok"
               /\ FileKind(other) # FileKind(FileNamed(lastImport.file)))
                  => ReportOf(other) # lastImport.error

LaterImportWins ==
    LET Contents(list) ==
            [i \in 1..Len(list) |-> <<list[i].name, list[i].start, list[i].end>>]
    IN
    (inFlight = {} /\ lastStarted # NoFile /\ FileKind(lastStarted) = "ok")
        => /\ uploadedName = lastStarted.name
           /\ Contents(records[DATASET_UPLOADED])
                = Contents(convertCsvRowsToTasks(lastStarted.rows, 1))

\* C27 (as stated): in every reachable state the tasks of one dataset have
\* pairwise distinct ids, also after the ingestion of rows that supply their
\* own id values.
IdUniqueness ==
    \A mode \in DATASET_OPTIONS :
        \A i, j \in 1..Len(records[mode]) :
            i # j => records[mode][i].id # records[mode][j].id

(***************************************************************************)
(* The handlers of Next with the editor's bulk colour apply.                *)
(***************************************************************************)
NextEdit ==
    \/ Next
    \/ handleApplyColorToSelection

SpecEdit == Init /\ [][NextEdit]_vars

\* The operations that are no import, fetch, dataset switch, undo or redo.
EditOps ==
    {"editTask", "dateChange", "dragReorder", "dragToEnd", "sortChange",
     "applyColour", "shift", "addTask", "deleteTask"}

\* C28: a field edit, drag-reschedule, drag-reorder, sort change, bulk colour
\* apply, bulk shift, add or delete leaves the originalPosition of every task
\* that is in the list before and after the step as it was.
OriginalPositionFrame ==
    [][lastOp' \in EditOps
         => \A i \in 1..Len(tasks), j \in 1..Len(tasks') :
               tasks[i].id = tasks'[j].id
                 => tasks'[j].originalPosition = tasks[i].originalPosition]_vars

\* a drag-reorder has moved a task away from the place its originalPosition names
OriginalPositionFrameWitness ==
    /\ lastOp \in {"dragReorder", "dragToEnd"}
    /\ lastEffective
    /\ \E i \in 1..Len(tasks) : tasks[i].position # tasks[i].originalPosition

(***************************************************************************)
(* The colour specification: resolveColorSpec applied to a colour value,   *)
(* a colour label and an outline flag (pureList); pureBase holds the       *)
(* result.                                                                 *)
(***************************************************************************)
ColourStrings ==
    {"", " ", "Orange", " Orange ", "Grey", "Black", "black-outline", "Teal", "red",
     "#abc", "#F5642D", "#000000", "#1a3f5c"}

OutlineFlags == {"undefined", "true", "false"}

InitColour ==
    /\ InitApp
    /\ pureList \in {<<colorValue, colorLabel, outlineFlag>> :
                        colorValue \in ColourStrings, colorLabel \in ColourStrings,
                        outlineFlag \in OutlineFlags}
    /\ pureBase = <<>>

PureResolveColour ==
    /\ lastOp = "init"
    /\ pureBase' = <<resolveColorSpec(pureList[1], pureList[2], pureList[3])>>
    /\ lastOp' = "resolve"
    /\ UNCHANGED <<programVars, lastImport, lastStarted, lastEffective, opCount,
                   selectionBefore, lastTarget,
                   fullPast, pureList>>

NextColour == PureResolveColour

SpecColour == InitColour /\ [][NextColour]_vars

\* C29: the resolved colour is the result of the first rule that matches, in
\* the order: the label names a preset, the value names a preset, the value is
\* a hex colour, the label is a hex colour, the label is free text (kept as
\* the label, with the default preset's colour), else the default preset in
\* full.
ColourResolutionOrder ==
    lastOp = "resolve" =>
      LET colorValue == pureList[1]
          colorLabel == pureList[2]
          resolved == pureBase[1]
          Names(text, preset) ==
              /\ Trim(text) # ""
              /\ ToLowerCase(Trim(text)) \in
                    {ToLowerCase(preset.label), ToLowerCase(preset.color), preset.key}
          NamesPreset(text) ==
              \E k \in 1..Len(COLOR_PRESETS) : Names(text, COLOR_PRESETS[k])
          IsPresetOf(text) ==
              \E k \in 1..Len(COLOR_PRESETS) :
                  /\ Names(text, COLOR_PRESETS[k])
                  /\ resolved.color = COLOR_PRESETS[k].color
                  /\ resolved.label = COLOR_PRESETS[k].label
                  /\ resolved.presetKey = COLOR_PRESETS[k].key
      IN IF NamesPreset(colorLabel) THEN IsPresetOf(colorLabel)
         ELSE IF NamesPreset(colorValue) THEN IsPresetOf(colorValue)
         ELSE IF isValidHexColor(colorValue)
         THEN resolved.color = normaliseHexColor(colorValue) /\ resolved.presetKey = ""
         ELSE IF isValidHexColor(colorLabel)
         THEN resolved.color = normaliseHexColor(colorLabel) /\ resolved.presetKey = ""
         ELSE IF Trim(colorLabel) # ""
         THEN resolved.label = Trim(colorLabel) /\ resolved.color = DEFAULT_COLOR.color
         ELSE /\ resolved.color = DEFAULT_COLOR.color
              /\ resolved.label = DEFAULT_COLOR.label
              /\ resolved.presetKey = DEFAULT_COLOR.key

\* a value that is neither a preset nor a hex colour, with an empty label,
\* has been resolved to the default preset
ColourResolutionOrderWitness ==
    /\ lastOp = "resolve"
    /\ pureList[1] = "Teal"
    /\ pureList[2] = ""
    /\ pureBase[1].color = DEFAULT_COLOR.color
    /\ pureBase[1].label = DEFAULT_COLOR.label
    /\ pureBase[1].presetKey = DEFAULT_COLOR.key

BulkShiftTargeting ==
    [][lastOp' = "shift"
         => \E offset \in ShiftOffsets :
              /\ TaskIds(tasks') = TaskIds(tasks)
              /\ \A i \in 1..Len(tasks), j \in 1..Len(tasks') :
                    tasks[i].id = tasks'[j].id
                      => IF Len(selectedTaskIds) = 0
                            \/ \E k \in 1..Len(selectedTaskIds) :
                                   selectedTaskIds[k] = tasks[i].id
                         THEN /\ tasks'[j].start = tasks[i].start + offset
                              /\ tasks'[j].end = tasks[i].end + offset
                         ELSE /\ tasks'[j].start = tasks[i].start
                              /\ tasks'[j].end = tasks[i].end]_vars

\* a shift has been applied while some, not all, tasks were selected
BulkShiftTargetingWitness ==
    /\ lastOp = "shift"
    /\ lastEffective
    /\ Len(selectedTaskIds) > 0
    /\ \E i \in 1..Len(tasks) :
          \A k \in 1..Len(selectedTaskIds) : selectedTaskIds[k] # tasks[i].id

CommitFrameUnderNormalise ==
    [][lastOp' \in {"editTask", "dateChange"}
         => \A i, k \in 1..Len(tasks), j, l \in 1..Len(tasks') :
               (i # k /\ tasks[i].id = tasks'[j].id /\ tasks[k].id = tasks'[l].id)
                 => \/ /\ tasks'[j].name = tasks[i].name
                       /\ tasks'[j].start = tasks[i].start
                       /\ tasks'[j].end = tasks[i].end
                       /\ tasks'[j].color = tasks[i].color
                       /\ tasks'[j].colorLabel = tasks[i].colorLabel
                       /\ tasks'[j].outline = tasks[i].outline
                       /\ tasks'[j].presetKey = tasks[i].presetKey
                    \/ /\ tasks'[l].name = tasks[k].name
                       /\ tasks'[l].start = tasks[k].start
                       /\ tasks'[l].end = tasks[k].end
                       /\ tasks'[l].color = tasks[k].color
                       /\ tasks'[l].colorLabel = tasks[k].colorLabel
                       /\ tasks'[l].outline = tasks[k].outline
                       /\ tasks'[l].presetKey = tasks[k].presetKey]_vars

\* C34: for source and target distinct and both in the list,
\* reorderTasksById returns the same tasks with the moved task immediately
\* before the target (after = false) or immediately after it (after = true),
\* the other tasks in their former relative order, positions 0..n-1 and
\* every originalPosition as it was; for a source that is not in the list it
\* returns the list as it is.
ReorderIsPermutation ==
    LET WithoutId(list, id) == SelectSeq(list, LAMBDA task : task.id # id)
        Ids(list) == [i \in 1..Len(list) |-> list[i].id]
    IN
    /\ \A targetId \in TaskIds(pureList) \cup {"", "zz"}, insertAfter \in BOOLEAN :
          reorderTasksById(pureList, "zz", targetId, insertAfter) = pureList
    /\ \A sourceId \in TaskIds(pureList), targetId \in TaskIds(pureList),
          insertAfter \in BOOLEAN :
          sourceId # targetId =>
            \E result \in {reorderTasksById(pureList, sourceId, targetId, insertAfter)} :
              /\ Len(result) = Len(pureList)
              /\ \A i \in 1..Len(result) :
                    /\ result[i].position = i - 1
                    /\ \E j \in 1..Len(pureList) :
                          result[i] = [pureList[j] EXCEPT !.position = i - 1]
              /\ TaskIds(result) = TaskIds(pureList)
              /\ Ids(WithoutId(result, sourceId)) = Ids(WithoutId(pureList, sourceId))
              /\ FindIndex(result, sourceId)
                    = FindIndex(result, targetId) + (IF insertAfter THEN 1 ELSE -1)

\* a list of three tasks that earlier reorders and sorts have rearranged
ReorderIsPermutationWitness ==
    /\ Len(pureList) = 3
    /\ pureList # pureBase
    /\ reorderTasksById(pureList, pureList[1].id, pureList[3].id, FALSE) # pureList
    /\ \E i \in 1..3 : pureList[i].position # pureList[i].originalPosition

\* C35: a commit, an undo and a redo change the task list and the history
\* bucket of the active dataset only; the lists, past, future and present of
\* the two inactive datasets stay as they were.
PerDatasetIsolation ==
    [][lastOp' \in {"sortChange", "dateChange", "deleteTask", "addTask", "editTask",
                    "shift", "dragReorder", "dragToEnd", "undo", "redo"}
         => /\ datasetMode' = datasetMode
            /\ \A mode \in DATASET_OPTIONS \ {datasetMode} :
                  /\ records'[mode] = records[mode]
                  /\ history'[mode] = history[mode]]_vars

\* a commit, undo or redo has changed the active dataset while an inactive
\* dataset holds tasks
PerDatasetIsolationWitness ==
    /\ lastOp \in {"dateChange", "deleteTask", "addTask", "editTask", "shift",
                   "dragReorder", "dragToEnd", "undo", "redo"}
    /\ lastEffective
    /\ \E mode \in DATASET_OPTIONS \ {datasetMode} : records[mode] # <<>>

\* C36 (as stated): when a CSV parse completes, the uploaded dataset becomes
\* the active one with an empty past and an empty future, its list is the
\* decoded tasks on success and the empty list when the parse reports a fatal
\* error or yields no valid task, and the default and the empty dataset and
\* their histories are unchanged.
ImportResetsUploaded ==
    [][lastOp' = "import"
         => \E file \in {f \in ImportFiles : f.name = lastImport'.file} :
              /\ datasetMode' = DATASET_UPLOADED
              /\ history'[DATASET_UPLOADED].past = <<>>
              /\ history'[DATASET_UPLOADED].future = <<>>
              /\ records'[DATASET_UPLOADED]
                    = IF lastImport'.success
                      THEN convertCsvRowsToTasks(file.rows, nextId)
                      ELSE <<>>
              /\ \A mode \in {DATASET_DEFAULT, DATASET_EMPTY} :
                    /\ records'[mode] = records[mode]
                    /\ history'[mode] = history[mode]]_vars

\* C37: whatever was committed, undone or redone on the default dataset
\* while the initial fetch was pending, when the fetch resolves with a
\* payload the default dataset's list is the normalised payload and its past
\* and future are empty.
FetchOverridesEdits ==
    [][lastOp' = "fetchOk"
         => /\ \E payload \in Payloads :
                  records'[DATASET_DEFAULT] = normaliseTaskCollection(payload, nextId)
            /\ history'[DATASET_DEFAULT].past = <<>>
            /\ history'[DATASET_DEFAULT].future = <<>>]_vars

\* the fetch has resolved after a task was added to the default dataset and
\* the add was undone or followed by another operation
FetchOverridesEditsWitness ==
    /\ lastOp = "fetchOk"
    /\ datasetMode = DATASET_DEFAULT
    /\ nextId > 1
    /\ opCount >= 3
    /\ \A i \in 1..Len(tasks) : tasks[i].id \notin {GeneratedIds[k] : k \in 1..Len(GeneratedIds)}

\* C38 (as stated): after every commit, undo, redo, import and dataset
\* switch, the canUndo flag handed to the toolbar is true exactly when the
\* active dataset's past is non-empty, and canRedo exactly when its future
\* is non-empty.
AvailabilityTracksStacks ==
    lastOp \in CommitOps \cup {"undo", "redo", "import"}
        => /\ canUndo = (Len(past) > 0)
           /\ canRedo = (Len(future) > 0)

\* C39: in every reachable state, for every dataset, the past and the future
\* together hold at most HISTORY_LIMIT snapshots: a commit empties the future,
\* undo and redo move one snapshot between the stacks, and the fetch empties
\* both.
CombinedHistoryBound ==
    \A mode \in DATASET_OPTIONS :
        Len(history[mode].past) + Len(history[mode].future) <= HISTORY_LIMIT

\* an undo from a full past: the stacks together still hold HISTORY_LIMIT
CombinedHistoryBoundWitness ==
    /\ lastOp = "undo"
    /\ Len(fullPast) >= HISTORY_LIMIT
    /\ Len(future) > 0
    /\ Len(past) + Len(future) = HISTORY_LIMIT

====
